---- MODULE Spec2Model ----
(***************************************************************************)
(* A model of the Lox front end of codecrafters-interpreter-rust:          *)
(*   - the scanner    (src/src/tokenizer.rs),                              *)
(*   - the parser     (src/src/parser.rs),                                 *)
(*   - the evaluator  (src/src/interpreter.rs),                            *)
(*   - the tokenize command of the stand-alone src/src/main.rs.            *)
(* Each component is a state machine of its own (SpecScan, SpecParse,      *)
(* SpecRun and SpecEnv for the evaluator on two families of programs,      *)
(* SpecCmd) over the input it is given; the variables of the components    *)
(* that are not running keep their idle values.  Characters are            *)
(* one-character strings; a source text, a lexeme and a name are sequences *)
(* of characters.                                                          *)
(***************************************************************************)
EXTENDS Integers, Sequences, FiniteSets, TLC

VARIABLES
    \* Scanner (tokenizer.rs:146-151) and the locals of tokenize (319-333)
    source,      \* Scanner.source : Vec<char>
    current,     \* Scanner.current, 0-based index of the next character
    line,        \* Scanner.line, 1-based
    had_error,   \* Scanner.had_error
    tokens,      \* tokenize's local `tokens`
    errlog,      \* the lines Scanner::error wrote to stderr
    spc,         \* "idle" | "scan" (in the while loop) | "done" (returned)

    \* Parser (parser.rs:230-233) and the locals of Parser::program (304-310)
    p_tokens,    \* Parser.tokens
    p_current,   \* Parser.current, 0-based index of the token under the cursor
    p_stmts,     \* program's local `stmts`
    p_diags,     \* the lines Parser::error wrote to stderr
    p_result,    \* [status |-> "idle" | "pending" | "Err"] or
                 \* [status |-> "Ok", program |-> stmts]: parse_program's result

    \* Evaluator (interpreter.rs:191-239)
    program,     \* the Program given to interpret_program
    scopes,      \* Environment.scopes, the innermost scope last
    output,      \* the lines println! wrote to stdout
    frames,      \* the call stack: interpret_program's loop and, above it, the
                 \* active calls of interpret_stmt, the innermost last
    r_status,    \* "idle" | "run" | "unwind" (an Err is being returned up the
                 \* stack through `?`) | "ok" | "err" (interpret_program returned)
    r_error,     \* <<>> or <<RuntimeError>>
    shadow,      \* history: per scope, for each name declared in it, what a
                 \* lookup of the name gave just before its first declaration
    lastret,     \* history: the latest return of an interpret_stmt call

    \* The tokenize command (main.rs:260-276)
    file_contents, \* cmd_tokenize's `file_contents` as characters
    c_tokens,      \* cmd_tokenize's `tokens`
    c_had_error,   \* cmd_tokenize's `had_error`
    c_stderr,      \* the lines Scanner::error wrote to stderr
    stdout,        \* the lines println! wrote to stdout
    exit_code,     \* <<>> or <<the ExitCode cmd_tokenize returned>>
    cpc            \* "idle" | "tokenize" | "print" (in the for loop) | "exit"

scanVars == <<source, current, line, had_error, tokens, errlog, spc>>

parseVars == <<p_tokens, p_current, p_stmts, p_diags, p_result>>

runVars == <<program, scopes, output, frames, r_status, r_error, shadow, lastret>>

cmdVars == <<file_contents, c_tokens, c_had_error, c_stderr, stdout, exit_code, cpc>>

vars == <<scanVars, parseVars, runVars, cmdVars>>

----------------------------------------------------------------------------
(* Bounds of the model *)

\* Longest source text the scanner is run on.
MaxSrcLen == 4

\* Longest sequence of freely chosen tokens the parser is run on.
MaxToks == 3

\* Most operators in an operator chain, most `=` in an assignment chain.
MaxOps == 3

MaxAssign == 2

\* Most top-level statements of a program the evaluator is run on.
MaxProg == 3

RECURSIVE SeqsUpTo(_, _)
SeqsUpTo(S, n) ==
    IF n = 0 THEN {<<>>}
    ELSE LET shorter == SeqsUpTo(S, n - 1)
         IN  shorter \cup {Append(s, c) : s \in {t \in shorter : Len(t) = n - 1}, c \in S}

\* The idle values of the components that are not running.
ScanIdle ==
    /\ source = <<>> /\ current = 0 /\ line = 1 /\ had_error = FALSE
    /\ tokens = <<>> /\ errlog = <<>> /\ spc = "idle"

ParseIdle ==
    /\ p_tokens = <<>> /\ p_current = 0 /\ p_stmts = <<>> /\ p_diags = <<>>
    /\ p_result = [status |-> "idle"]

RunIdle ==
    /\ program = <<>> /\ scopes = <<>> /\ output = <<>> /\ frames = <<>>
    /\ r_status = "idle" /\ r_error = <<>> /\ shadow = <<>>
    /\ lastret = [kind |-> "none"]

CmdIdle ==
    /\ file_contents = <<>> /\ c_tokens = <<>> /\ c_had_error = FALSE
    /\ c_stderr = <<>> /\ stdout = <<>> /\ exit_code = <<>> /\ cpc = "idle"

----------------------------------------------------------------------------
(* Character classes (tokenizer.rs:277, 292-295) *)

Digits == {"0", "1", "2", "3", "4", "5", "6", "7", "8", "9"}

Letters ==
    {"a", "b", "c", "d", "e", "f", "g", "h", "i", "j", "k", "l", "m",
     "n", "o", "p", "q", "r", "s", "t", "u", "v", "w", "x", "y", "z",
     "A", "B", "C", "D", "E", "F", "G", "H", "I", "J", "K", "L", "M",
     "N", "O", "P", "Q", "R", "S", "T", "U", "V", "W", "X", "Y", "Z"}

IdentStart == Letters \cup {"_"}

IdentPart == Letters \cup Digits \cup {"_"}

Whitespace == {" ", "\t", "\n"}

\* A keyword table that goes by the first two characters of the name.
get_keyword_by_prefix(name) ==
    IF Len(name) >= 2 /\ SubSeq(name, 1, 2) = <<"o", "r">> THEN "Or" ELSE "Identifier"

\* get_keyword: the token type of a reserved word, "Identifier" otherwise.
get_keyword(name) ==
    CASE name = <<"a", "n", "d">> -> "And"
      [] name = <<"c", "l", "a", "s", "s">> -> "Class"
      [] name = <<"e", "l", "s", "e">> -> "Else"
      [] name = <<"f", "a", "l", "s", "e">> -> "False"
      [] name = <<"f", "u", "n">> -> "Fun"
      [] name = <<"f", "o", "r">> -> "For"
      [] name = <<"i", "f">> -> "If"
      [] name = <<"n", "i", "l">> -> "Nil"
      [] name = <<"o", "r">> -> "Or"
      [] name = <<"p", "r", "i", "n", "t">> -> "Print"
      [] name = <<"r", "e", "t", "u", "r", "n">> -> "Return"
      [] name = <<"s", "u", "p", "e", "r">> -> "Super"
      [] name = <<"t", "h", "i", "s">> -> "This"
      [] name = <<"t", "r", "u", "e">> -> "True"
      [] name = <<"v", "a", "r">> -> "Var"
      [] name = <<"w", "h", "i", "l", "e">> -> "While"
      [] OTHER -> "Identifier"

SingleCharType(c) ==
    CASE c = "(" -> "LeftParen"
      [] c = ")" -> "RightParen"
      [] c = "{" -> "LeftBrace"
      [] c = "}" -> "RightBrace"
      [] c = "," -> "Comma"
      [] c = "." -> "Dot"
      [] c = "-" -> "Minus"
      [] c = "+" -> "Plus"
      [] c = ";" -> "Semicolon"
      [] c = "*" -> "Star"

SingleChars == {"(", ")", "{", "}", ",", ".", "-", "+", ";", "*"}

OneOrTwoChars == {"!", "=", ">", "<"}

OneCharOpType(c) ==
    CASE c = "!" -> "Bang"
      [] c = "=" -> "Equal"
      [] c = ">" -> "Greater"
      [] c = "<" -> "Less"

TwoCharOpType(c) ==
    CASE c = "!" -> "BangEqual"
      [] c = "=" -> "EqualEqual"
      [] c = ">" -> "GreaterEqual"
      [] c = "<" -> "LessEqual"

----------------------------------------------------------------------------
(* Scanner methods.  A scanner position is a record [current, line]; the   *)
(* source is 1-indexed here, so source[current + 1] is Rust's              *)
(* source[current].                                                        *)

has_more(src, sc) == sc.current < Len(src)

\* Scanner::peek: <<c>> for Some(c), <<>> for None.
peek(src, sc) == IF has_more(src, sc) THEN <<src[sc.current + 1]>> ELSE <<>>

peek_next(src, sc) ==
    IF sc.current + 1 < Len(src) THEN <<src[sc.current + 2]>> ELSE <<>>

\* Scanner::advance: only called when has_more; counts a newline it passes.
advance(src, sc) ==
    [current |-> sc.current + 1,
     line    |-> IF src[sc.current + 1] = "\n" THEN sc.line + 1 ELSE sc.line]

\* A probe that never finds its character.
is_match_never(src, sc, c) == sc

\* Scanner::is_match: the position after the probe (moved iff c is next).
is_match(src, sc, c) ==
    IF peek(src, sc) = <<c>> THEN advance(src, sc) ELSE sc

\* A substr that drops the first character of the range.
substr_tail(src, start, end) == SubSeq(src, start + 2, end)

\* Scanner::substr(start, end), end exclusive.
substr(src, start, end) == SubSeq(src, start + 1, end)

\* Scanner::error: the stderr line "[line N] Error: msg".
ScanDiag(sc, msg, ch) == [line |-> sc.line, msg |-> msg, ch |-> ch]

\* `while scanner.has_more() { c = advance(); if c == '\n' { break } }`
RECURSIVE SkipComment(_, _)
SkipComment(src, sc) ==
    IF ~has_more(src, sc) THEN sc
    ELSE IF src[sc.current + 1] = "\n" THEN advance(src, sc)
    ELSE SkipComment(src, advance(src, sc))

\* The string loop: advance to the closing quote, or to the end of input.
\* closed = FALSE is the `!scanner.has_more()` exit.
RECURSIVE ScanString(_, _)
ScanString(src, sc) ==
    IF ~has_more(src, sc) THEN [sc |-> sc, closed |-> FALSE]
    ELSE IF src[sc.current + 1] = "\"" THEN [sc |-> advance(src, sc), closed |-> TRUE]
    ELSE ScanString(src, advance(src, sc))

\* `while scanner.peek().is_some_and(|c| c in S) { scanner.advance(); }`
RECURSIVE AdvanceWhile(_, _, _)
AdvanceWhile(src, sc, S) ==
    IF has_more(src, sc) /\ src[sc.current + 1] \in S
    THEN AdvanceWhile(src, advance(src, sc), S)
    ELSE sc

\* A number arm that takes a '.' whatever follows it.
ScanNumberAnyDot(src, sc) ==
    LET a == AdvanceWhile(src, sc, Digits)
        b == IF peek(src, a) = <<".">> THEN advance(src, a) ELSE a
    IN  AdvanceWhile(src, b, Digits)

\* The number arm: digits, a '.' only when a digit follows it, digits.
ScanNumber(src, sc) ==
    LET a == AdvanceWhile(src, sc, Digits)
        b == IF peek(src, a) = <<".">> /\ peek_next(src, a) # <<>>
                /\ peek_next(src, a)[1] \in Digits
             THEN advance(src, a) ELSE a
    IN  AdvanceWhile(src, b, Digits)

\* What the unterminated-string arm reports: Scanner::error reads self.line.
UnterminatedDiag(startSc, endSc) == ScanDiag(endSc, "Unterminated string.", "")

\* A catch-all arm that skips the character without a word.
UnexpectedCharSilent(sc1, c) == [sc |-> sc1, errs |-> <<>>, ttype |-> "none"]

\* What the catch-all arm does with a character no rule accepts.
UnexpectedChar(sc1, c) ==
    [sc |-> sc1, errs |-> <<ScanDiag(sc1, "Unexpected character: ", c)>>,
     ttype |-> "none"]

\* scan_token up to the choice of the token type: the position reached,
\* the diagnostics written, and the type ("none" for the `return None` arms).
ScanArm(src, sc0) ==
    LET c   == src[sc0.current + 1]
        sc1 == advance(src, sc0)
    IN  CASE c \in Whitespace -> [sc |-> sc1, errs |-> <<>>, ttype |-> "none"]
          [] c \in SingleChars -> [sc |-> sc1, errs |-> <<>>, ttype |-> SingleCharType(c)]
          [] c \in OneOrTwoChars ->
                LET sc2 == is_match(src, sc1, "=")
                IN  [sc |-> sc2, errs |-> <<>>,
                     ttype |-> IF sc2 # sc1 THEN TwoCharOpType(c) ELSE OneCharOpType(c)]
          [] c = "/" ->
                LET sc2 == is_match(src, sc1, "/")
                IN  IF sc2 # sc1
                    THEN [sc |-> SkipComment(src, sc2), errs |-> <<>>, ttype |-> "none"]
                    ELSE [sc |-> sc1, errs |-> <<>>, ttype |-> "Slash"]
          [] c = "\"" ->
                LET r == ScanString(src, sc1)
                IN  IF r.closed
                    THEN [sc |-> r.sc, errs |-> <<>>, ttype |-> "StringLiteral"]
                    ELSE [sc |-> r.sc, errs |-> <<UnterminatedDiag(sc0, r.sc)>>,
                          ttype |-> "none"]
          [] c \in Digits ->
                [sc |-> ScanNumber(src, sc1), errs |-> <<>>, ttype |-> "Number"]
          [] c \in IdentStart ->
                LET sc2 == AdvanceWhile(src, sc1, IdentPart)
                IN  [sc |-> sc2, errs |-> <<>>,
                     ttype |-> get_keyword(substr(src, sc0.current, sc2.current))]
          [] OTHER -> UnexpectedChar(sc1, c)

Token(ttype, lexeme, ln) == [token_type |-> ttype, lexeme |-> lexeme, line |-> ln]

\* scan_token: consumes at least one character; toks is <<token>> for
\* Some(token) and <<>> for None.  The token's line is the scanner's line
\* after the lexeme was consumed (tokenizer.rs:315).
scan_token(src, sc0) ==
    LET r == ScanArm(src, sc0)
    IN  [sc   |-> r.sc,
         errs |-> r.errs,
         toks |-> IF r.ttype = "none" THEN <<>>
                  ELSE <<Token(r.ttype, substr(src, sc0.current, r.sc.current), r.sc.line)>>]

\* tokenize as a function of the source text: the loop run to its end.
RECURSIVE tokenize_loop(_, _, _, _)
tokenize_loop(src, sc, toks, err) ==
    IF has_more(src, sc)
    THEN LET r == scan_token(src, sc)
         IN  tokenize_loop(src, r.sc, toks \o r.toks, err \/ r.errs # <<>>)
    ELSE [tokens |-> Append(toks, Token("Eof", <<>>, sc.line)), had_error |-> err]

tokenize(contents) == tokenize_loop(contents, [current |-> 0, line |-> 1], <<>>, FALSE)

----------------------------------------------------------------------------
(* tokenize (tokenizer.rs:319-333) as a state machine: one step per        *)
(* iteration of its loop.                                                  *)

\* The characters source texts are drawn from: whitespace, a newline, a
\* quote, a character no rule accepts, and one character of each token class.
Alphabet == {" ", "\n", "\"", "@", "/", "=", "1", ".", "a"}

InitScan ==
    /\ source \in SeqsUpTo(Alphabet, MaxSrcLen)
    /\ current = 0
    /\ line = 1
    /\ had_error = FALSE
    /\ tokens = <<>>
    /\ errlog = <<>>
    /\ spc = "scan"
    /\ ParseIdle
    /\ RunIdle
    /\ CmdIdle

\* One iteration of `while scanner.has_more()`.
ScanStep ==
    /\ spc = "scan"
    /\ current < Len(source)
    /\ LET r == scan_token(source, [current |-> current, line |-> line])
       IN  /\ current' = r.sc.current
           /\ line' = r.sc.line
           /\ had_error' = (had_error \/ r.errs # <<>>)
           /\ errlog' = errlog \o r.errs
           /\ tokens' = tokens \o r.toks
    /\ UNCHANGED <<source, spc, parseVars, runVars, cmdVars>>

\* A return without the Eof token.
ScanFinishWithoutEof ==
    /\ spc = "scan"
    /\ ~(current < Len(source))
    /\ spc' = "done"
    /\ UNCHANGED <<source, current, line, had_error, tokens, errlog, parseVars, runVars, cmdVars>>

\* The loop is over: push the Eof token and return.
ScanFinish ==
    /\ spc = "scan"
    /\ ~(current < Len(source))
    /\ tokens' = Append(tokens, Token("Eof", <<>>, line))
    /\ spc' = "done"
    /\ UNCHANGED <<source, current, line, had_error, errlog, parseVars, runVars, cmdVars>>

NextScan == ScanStep \/ ScanFinish

SpecScan == InitScan /\ [][NextScan]_vars
----------------------------------------------------------------------------
(* f64.  A number is modelled by the rational <<n, d>> in lowest terms     *)
(* with d > 0 that it holds, or by <<1, 0>> (inf), <<-1, 0>> (-inf),       *)
(* <<0, 0>> (NaN); rounding and the sign of zero are not modelled.         *)

Abs(n) == IF n < 0 THEN -n ELSE n

Sign(n) == IF n < 0 THEN -1 ELSE IF n > 0 THEN 1 ELSE 0

RECURSIVE Gcd(_, _)
Gcd(a, b) == IF b = 0 THEN a ELSE Gcd(b, a % b)

F64NaN == <<0, 0>>

F64Inf(sgn) == <<sgn, 0>>

IsNaN(a) == a = F64NaN

IsInf(a) == a[2] = 0 /\ a[1] # 0

\* The f64 of the quotient n / d of two integers, d # 0.
F64Ratio(n, d) ==
    LET g == Gcd(Abs(n), Abs(d))
    IN  <<(Sign(d) * n) \div g, Abs(d) \div g>>

F64Neg(a) == <<-a[1], a[2]>>

F64Add(a, b) ==
    CASE IsNaN(a) \/ IsNaN(b) -> F64NaN
      [] IsInf(a) /\ IsInf(b) -> IF a = b THEN a ELSE F64NaN
      [] IsInf(a) -> a
      [] IsInf(b) -> b
      [] OTHER -> F64Ratio(a[1] * b[2] + b[1] * a[2], a[2] * b[2])

F64Sub(a, b) == F64Add(a, F64Neg(b))

F64Mul(a, b) ==
    CASE IsNaN(a) \/ IsNaN(b) -> F64NaN
      [] IsInf(a) \/ IsInf(b) ->
            IF a[1] = 0 \/ b[1] = 0 THEN F64NaN ELSE F64Inf(Sign(a[1]) * Sign(b[1]))
      [] OTHER -> F64Ratio(a[1] * b[1], a[2] * b[2])

F64Div(a, b) ==
    CASE IsNaN(a) \/ IsNaN(b) -> F64NaN
      [] IsInf(a) /\ IsInf(b) -> F64NaN
      [] IsInf(a) -> IF b[1] < 0 THEN F64Neg(a) ELSE a
      [] IsInf(b) -> <<0, 1>>
      [] b[1] = 0 -> IF a[1] = 0 THEN F64NaN ELSE F64Inf(Sign(a[1]))
      [] OTHER -> F64Ratio(a[1] * b[2], a[2] * b[1])

F64Lt(a, b) ==
    CASE IsNaN(a) \/ IsNaN(b) -> FALSE
      [] IsInf(a) -> a[1] < 0 /\ b # a
      [] IsInf(b) -> b[1] > 0
      [] OTHER -> a[1] * b[2] < b[1] * a[2]

\* IEEE equality: NaN equals nothing.
F64Eq(a, b) == ~IsNaN(a) /\ ~IsNaN(b) /\ a = b

RECURSIVE Pow10(_)
Pow10(k) == IF k = 0 THEN 1 ELSE 10 * Pow10(k - 1)

DigitValue(c) ==
    CASE c = "0" -> 0 [] c = "1" -> 1 [] c = "2" -> 2 [] c = "3" -> 3 [] c = "4" -> 4
      [] c = "5" -> 5 [] c = "6" -> 6 [] c = "7" -> 7 [] c = "8" -> 8 [] c = "9" -> 9

\* The value of a digit run.
RECURSIVE DigitsValue(_)
DigitsValue(ds) ==
    IF ds = <<>> THEN 0
    ELSE 10 * DigitsValue(SubSeq(ds, 1, Len(ds) - 1)) + DigitValue(ds[Len(ds)])

\* str::parse::<f64> of a number lexeme: a digit run, optionally followed by
\* '.' and a digit run.
parse_f64(lexeme) ==
    LET dots == {i \in 1..Len(lexeme) : lexeme[i] = "."}
    IN  IF dots = {} THEN <<DigitsValue(lexeme), 1>>
        ELSE LET p    == CHOOSE i \in dots : TRUE
                 frac == SubSeq(lexeme, p + 1, Len(lexeme))
             IN  F64Ratio(DigitsValue(SubSeq(lexeme, 1, p - 1)) * Pow10(Len(frac))
                              + DigitsValue(frac),
                          Pow10(Len(frac)))

\* The fraction digits of r / d, at most k of them.
RECURSIVE FracDigits(_, _, _)
FracDigits(r, d, k) ==
    IF r = 0 \/ k = 0 THEN ""
    ELSE ToString((10 * r) \div d) \o FracDigits((10 * r) % d, d, k - 1)

\* `{}` of an f64.
DisplayF64(a) ==
    CASE IsNaN(a) -> "NaN"
      [] IsInf(a) -> IF a[1] > 0 THEN "inf" ELSE "-inf"
      [] a[2] = 1 -> ToString(a[1])
      [] OTHER ->
            (IF a[1] < 0 THEN "-" ELSE "") \o ToString(Abs(a[1]) \div a[2]) \o "."
                \o FracDigits(Abs(a[1]) % a[2], a[2], 17)

\* `{:?}` of an f64: as `{}`, with ".0" after an integral value.
DebugF64(a) ==
    IF a[2] = 1 THEN ToString(a[1]) \o ".0" ELSE DisplayF64(a)

\* A String of the given characters.
RECURSIVE Chars(_)
Chars(s) == IF s = <<>> THEN "" ELSE s[1] \o Chars(Tail(s))

----------------------------------------------------------------------------
(* The syntax tree (parser.rs:5-87).  Every expression node carries the    *)
(* usize the parser stored with it in `line`.                              *)

LiteralE(ln, lit, val) == [kind |-> "Literal", line |-> ln, lit |-> lit, val |-> val]

VariableE(ln, name) == [kind |-> "Variable", line |-> ln, name |-> name]

UnaryE(ln, op, expr) == [kind |-> "Unary", line |-> ln, op |-> op, expr |-> expr]

BinaryE(ln, left, op, right) ==
    [kind |-> "Binary", line |-> ln, left |-> left, op |-> op, right |-> right]

LogicalE(ln, left, op, right) ==
    [kind |-> "Logical", line |-> ln, left |-> left, op |-> op, right |-> right]

GroupingE(ln, expr) == [kind |-> "Grouping", line |-> ln, expr |-> expr]

AssignE(ln, name, rhs) == [kind |-> "Assign", line |-> ln, name |-> name, rhs |-> rhs]

\* Stmt; an Option is <<>> for None and <<v>> for Some(v).
ExprS(e) == [kind |-> "Expr", expr |-> e]

PrintS(e) == [kind |-> "Print", expr |-> e]

VarS(name, initializer) == [kind |-> "Var", name |-> name, initializer |-> initializer]

BlockS(stmts) == [kind |-> "Block", stmts |-> stmts]

IfS(condition, then_branch, else_branch) ==
    [kind |-> "IfStmt", condition |-> condition, then_branch |-> then_branch,
     else_branch |-> else_branch]

----------------------------------------------------------------------------
(* Display of the tree (parser.rs:89-184): the parenthesised prefix form.  *)

UnaryOpStr(op) == IF op = "Negative" THEN "-" ELSE "!"

BinaryOpStr(op) ==
    CASE op = "Equal" -> "==" [] op = "NotEqual" -> "!="
      [] op = "Less" -> "<" [] op = "LessEqual" -> "<="
      [] op = "Greater" -> ">" [] op = "GreaterEqual" -> ">="
      [] op = "Add" -> "+" [] op = "Sub" -> "-"
      [] op = "Mul" -> "*" [] op = "Div" -> "/"

LogicalOpStr(op) == IF op = "And" THEN "and" ELSE "or"

RECURSIVE DisplayExpr(_)
DisplayExpr(e) ==
    CASE e.kind = "Literal" ->
            (CASE e.lit = "Number" -> DebugF64(e.val)
               [] e.lit = "String" -> Chars(e.val)
               [] e.lit = "True" -> "true"
               [] e.lit = "False" -> "false"
               [] e.lit = "Nil" -> "nil")
      [] e.kind = "Variable" -> "(variable " \o Chars(e.name) \o ")"
      [] e.kind = "Unary" -> "(" \o UnaryOpStr(e.op) \o " " \o DisplayExpr(e.expr) \o ")"
      [] e.kind = "Binary" ->
            "(" \o BinaryOpStr(e.op) \o " " \o DisplayExpr(e.left) \o " "
                \o DisplayExpr(e.right) \o ")"
      [] e.kind = "Logical" ->
            "(" \o LogicalOpStr(e.op) \o " " \o DisplayExpr(e.left) \o " "
                \o DisplayExpr(e.right) \o ")"
      [] e.kind = "Grouping" -> "(group " \o DisplayExpr(e.expr) \o ")"
      [] e.kind = "Assign" ->
            "(assign " \o Chars(e.name) \o " " \o DisplayExpr(e.rhs) \o ")"

----------------------------------------------------------------------------
(* Parser methods (parser.rs:237-302).  The parser's state is its cursor;  *)
(* toks is 1-indexed, so toks[cur + 1] is Rust's tokens[current].  A       *)
(* Result is [ok, cur, diags, node]: the cursor reached, the lines written *)
(* to stderr, and the value of an Ok.  A method that follows a fallible    *)
(* call takes that call's Result r: on an Err it returns r unchanged,      *)
(* which is the ? operator; on an Ok it runs from r.cur.  A backquote of a *)
(* message is written ^ in the strings of this module.                     *)

POk(cur, node) == [ok |-> TRUE, cur |-> cur, diags |-> <<>>, node |-> node]

PErr(cur, diags) == [ok |-> FALSE, cur |-> cur, diags |-> diags, node |-> <<>>]

p_previous(toks, cur) == toks[cur]

p_peek(toks, cur) == toks[cur + 1]

check(toks, cur, token_type) == p_peek(toks, cur).token_type = token_type

\* An end test that takes a `;` for the end of the tokens.
is_at_end_at_semicolon(toks, cur) ==
    p_peek(toks, cur).token_type \in {"Eof", "Semicolon"}

is_at_end(toks, cur) == p_peek(toks, cur).token_type = "Eof"

\* A Parser::error that writes the lexeme between quotes for every token.
p_error_quoting(token, msg) ==
    [line  |-> token.line,
     where |-> <<"'">> \o token.lexeme \o <<"'">>,
     msg   |-> msg]

\* Parser::error: "[line N] Error at <where>: msg"; <where> is the word end for
\* Eof and the lexeme between single quotes otherwise.
p_error(token, msg) ==
    [line  |-> token.line,
     where |-> IF token.token_type = "Eof" THEN <<"e", "n", "d">>
               ELSE <<"'">> \o token.lexeme \o <<"'">>,
     msg   |-> msg]

\* An advance that moves the cursor without a look at the token under it.
p_advance_unchecked(toks, r) ==
    IF ~r.ok THEN r ELSE POk(r.cur + 1, r.node)

p_advance(toks, r) ==
    IF ~r.ok THEN r
    ELSE IF is_at_end(toks, r.cur)
    THEN PErr(r.cur, <<p_error(p_peek(toks, r.cur), "Not expecting end of file")>>)
    ELSE POk(r.cur + 1, r.node)

\* check_advance: the cursor afterwards (moved iff the type matched).
check_advance(toks, cur, token_type) ==
    IF check(toks, cur, token_type) THEN cur + 1 ELSE cur

\* consume: an Ok keeps the node of r.
consume(toks, r, token_type, msg) ==
    IF ~r.ok THEN r
    ELSE IF check(toks, r.cur, token_type)
    THEN p_advance(toks, r)
    ELSE PErr(r.cur, <<p_error(p_peek(toks, r.cur), msg)>>)

\* Parser::line: the line of the token under the cursor.
p_line(toks, cur) == p_peek(toks, cur).line

----------------------------------------------------------------------------
(* The grammar (parser.rs:304-560). *)

EqualityOp(tt) ==
    CASE tt = "BangEqual" -> "NotEqual" [] tt = "EqualEqual" -> "Equal" [] OTHER -> "none"

ComparisonOp(tt) ==
    CASE tt = "Greater" -> "Greater" [] tt = "GreaterEqual" -> "GreaterEqual"
      [] tt = "Less" -> "Less" [] tt = "LessEqual" -> "LessEqual" [] OTHER -> "none"

TermOp(tt) ==
    CASE tt = "Minus" -> "Sub" [] tt = "Plus" -> "Add" [] OTHER -> "none"

FactorOp(tt) ==
    CASE tt = "Slash" -> "Div" [] tt = "Star" -> "Mul" [] OTHER -> "none"

UnaryOp(tt) ==
    CASE tt = "Bang" -> "Not" [] tt = "Minus" -> "Negative" [] OTHER -> "none"

\* The assignment `expr = Expr::Binary(self.line(), ...)` of an operator
\* loop, after `let right = ...?`: the line is read with the cursor after
\* the right operand.
MakeBinary(toks, left, op, right) ==
    IF ~right.ok THEN right
    ELSE POk(right.cur, BinaryE(p_line(toks, right.cur), left.node, op, right.node))

MakeLogical(toks, left, op, right) ==
    IF ~right.ok THEN right
    ELSE POk(right.cur, LogicalE(p_line(toks, right.cur), left.node, op, right.node))

\* `Ok(Expr::Unary(self.line(), Unary { op, expr: Box::new(self.unary()?) }))`:
\* ln is the line read before the operand is parsed.
MakeUnary(ln, op, operand) ==
    IF ~operand.ok THEN operand
    ELSE POk(operand.cur, UnaryE(ln, op, operand.node))

\* The LeftParen arm of primary after `self.consume(RightParen, ...)?`.
MakeGrouping(ln, closed) ==
    IF ~closed.ok THEN closed
    ELSE POk(closed.cur, GroupingE(ln, closed.node))

\* The test `if let Expr::Variable(line, Variable(name)) = expr`.
IsAssignTarget(expr) == expr.kind = "Variable"

\* An assignment that checks its target before it looks at the right-hand
\* side.
MakeAssignTargetFirst(target, equals, rhs) ==
    IF ~IsAssignTarget(target.node)
    THEN PErr(rhs.cur, <<p_error(equals, "Invalid assignment target")>>)
    ELSE IF ~rhs.ok THEN rhs
    ELSE POk(rhs.cur, AssignE(target.node.line, target.node.name, rhs.node))

\* assignment after `let rhs = self.assignment()?`.
MakeAssign(target, equals, rhs) ==
    IF ~rhs.ok THEN rhs
    ELSE IF IsAssignTarget(target.node)
    THEN POk(rhs.cur, AssignE(target.node.line, target.node.name, rhs.node))
    ELSE PErr(rhs.cur, <<p_error(equals, "Invalid assignment target")>>)

\* `stmts.push(self.declaration()?)`
PushStmt(stmts, d) ==
    IF ~d.ok THEN d ELSE POk(d.cur, Append(stmts, d.node))

\* `Ok(Stmt::Print(expr))` and `Ok(Stmt::Expr(expr))` after the consume of `;`.
MakePrint(s) == IF ~s.ok THEN s ELSE POk(s.cur, PrintS(s.node))

MakeExprStmt(s) == IF ~s.ok THEN s ELSE POk(s.cur, ExprS(s.node))

\* `Ok(Stmt::Var { name, initializer })` after the consume of `;`.
MakeVar(name, hasInit, s) ==
    IF ~s.ok THEN s
    ELSE POk(s.cur, VarS(name, IF hasInit THEN <<s.node>> ELSE <<>>))

\* `Ok(Stmt::IfStmt { .. })` with an else branch.
MakeIfElse(c, t, e) ==
    IF ~e.ok THEN e ELSE POk(e.cur, IfS(c.node, t.node, <<e.node>>))

RECURSIVE declaration(_, _), stmt(_, _), block_loop(_, _), expression(_, _),
          assignment(_, _), assignment_rest(_, _),
          logic_or(_, _), logic_or_loop(_, _),
          logic_and(_, _), logic_and_loop(_, _),
          equality(_, _), equality_loop(_, _),
          comparison(_, _), comparison_loop(_, _),
          term(_, _), term_loop(_, _), factor(_, _), factor_loop(_, _),
          unary(_, _), primary(_, _), primary_match(_, _),
          print_stmt(_, _), if_stmt(_, _), if_then(_, _), if_else(_, _, _),
          expr_stmt(_, _), var_declaration(_, _), var_initializer(_, _)

\* primary after `self.advance()?`: the match on the eaten token.
primary_match(toks, a) ==
    IF ~a.ok THEN a
    ELSE
    LET token == p_previous(toks, a.cur)
        tt    == token.token_type
    IN  CASE tt = "Identifier" -> POk(a.cur, VariableE(token.line, token.lexeme))
          [] tt = "Number" ->
                POk(a.cur, LiteralE(token.line, "Number", parse_f64(token.lexeme)))
          [] tt = "StringLiteral" ->
                POk(a.cur, LiteralE(token.line, "String",
                                    SubSeq(token.lexeme, 2, Len(token.lexeme) - 1)))
          [] tt = "True" -> POk(a.cur, LiteralE(token.line, "True", <<>>))
          [] tt = "False" -> POk(a.cur, LiteralE(token.line, "False", <<>>))
          [] tt = "Nil" -> POk(a.cur, LiteralE(token.line, "Nil", <<>>))
          [] tt = "LeftParen" ->
                MakeGrouping(token.line,
                    consume(toks, expression(toks, a), "RightParen", "Expecting ^)^"))
          [] OTHER -> PErr(a.cur, <<p_error(token, "Unexpected token")>>)

primary(toks, r) == primary_match(toks, p_advance(toks, r))

\* An operator token is not Eof, so `self.advance()?` moves the cursor by
\* one and self.line() reads the token after the operator.
unary(toks, r) ==
    IF ~r.ok THEN r
    ELSE LET op == UnaryOp(p_peek(toks, r.cur).token_type)
         IN  IF op # "none"
             THEN MakeUnary(p_line(toks, r.cur + 1), op, unary(toks, p_advance(toks, r)))
             ELSE primary(toks, r)

\* The loop of factor; left is the Result holding `expr`.
factor_loop(toks, left) ==
    IF ~left.ok THEN left
    ELSE LET op == FactorOp(p_peek(toks, left.cur).token_type)
         IN  IF op = "none" THEN left
             ELSE factor_loop(toks,
                      MakeBinary(toks, left, op, unary(toks, p_advance(toks, left))))

factor(toks, r) == factor_loop(toks, unary(toks, r))

term_loop(toks, left) ==
    IF ~left.ok THEN left
    ELSE LET op == TermOp(p_peek(toks, left.cur).token_type)
         IN  IF op = "none" THEN left
             ELSE term_loop(toks,
                      MakeBinary(toks, left, op, factor(toks, p_advance(toks, left))))

\* A term whose first operand is a unary, not a factor.
term_of_unary(toks, r) == term_loop(toks, unary(toks, r))

term(toks, r) == term_loop(toks, factor(toks, r))

comparison_loop(toks, left) ==
    IF ~left.ok THEN left
    ELSE LET op == ComparisonOp(p_peek(toks, left.cur).token_type)
         IN  IF op = "none" THEN left
             ELSE comparison_loop(toks,
                      MakeBinary(toks, left, op, term(toks, p_advance(toks, left))))

comparison(toks, r) == comparison_loop(toks, term(toks, r))

equality_loop(toks, left) ==
    IF ~left.ok THEN left
    ELSE LET op == EqualityOp(p_peek(toks, left.cur).token_type)
         IN  IF op = "none" THEN left
             ELSE equality_loop(toks,
                      MakeBinary(toks, left, op, comparison(toks, p_advance(toks, left))))

equality(toks, r) == equality_loop(toks, comparison(toks, r))

logic_and_loop(toks, left) ==
    IF ~left.ok THEN left
    ELSE IF check(toks, left.cur, "And")
    THEN logic_and_loop(toks,
             MakeLogical(toks, left, "And",
                         equality(toks, POk(check_advance(toks, left.cur, "And"), <<>>))))
    ELSE left

logic_and(toks, r) == logic_and_loop(toks, equality(toks, r))

logic_or_loop(toks, left) ==
    IF ~left.ok THEN left
    ELSE IF check(toks, left.cur, "Or")
    THEN logic_or_loop(toks,
             MakeLogical(toks, left, "Or",
                         logic_and(toks, POk(check_advance(toks, left.cur, "Or"), <<>>))))
    ELSE left

logic_or(toks, r) == logic_or_loop(toks, logic_and(toks, r))

\* assignment after `let expr = self.logic_or()?`; `equals` is the token
\* check_advance ate.
assignment_rest(toks, e) ==
    IF ~e.ok THEN e
    ELSE IF check(toks, e.cur, "Equal")
    THEN MakeAssign(e, p_previous(toks, check_advance(toks, e.cur, "Equal")),
                    assignment(toks, POk(check_advance(toks, e.cur, "Equal"), <<>>)))
    ELSE e

assignment(toks, r) == assignment_rest(toks, logic_or(toks, r))

expression(toks, r) == assignment(toks, r)

\* `while !self.check_advance(RightBrace) { stmts.push(self.declaration()?) }`;
\* r.node is `stmts`.
block_loop(toks, r) ==
    IF ~r.ok THEN r
    ELSE IF check(toks, r.cur, "RightBrace")
    THEN POk(check_advance(toks, r.cur, "RightBrace"), BlockS(r.node))
    ELSE block_loop(toks, PushStmt(r.node, declaration(toks, r)))

\* The Print arm of stmt, r.cur after the keyword.
print_stmt(toks, r) ==
    MakePrint(consume(toks, expression(toks, r), "Semicolon", "Expecting ^;^"))

\* The If arm of stmt: t is the then branch, c holds the condition.
if_else(toks, c, t) ==
    IF ~t.ok THEN t
    ELSE IF check(toks, t.cur, "Else")
    THEN MakeIfElse(c, t, stmt(toks, POk(check_advance(toks, t.cur, "Else"), <<>>)))
    ELSE POk(t.cur, IfS(c.node, t.node, <<>>))

if_then(toks, c) == if_else(toks, c, stmt(toks, c))

if_stmt(toks, r) ==
    if_then(toks,
        consume(toks,
            expression(toks, consume(toks, r, "LeftParen", "Expecting '('")),
            "RightParen", "Expecting ')'"))

\* The last arm of stmt.
expr_stmt(toks, r) ==
    MakeExprStmt(consume(toks, expression(toks, r), "Semicolon", "Expecting ^;^"))

stmt(toks, r) ==
    IF ~r.ok THEN r
    ELSE CASE check(toks, r.cur, "Print") ->
                  print_stmt(toks, POk(check_advance(toks, r.cur, "Print"), <<>>))
           [] check(toks, r.cur, "LeftBrace") ->
                  block_loop(toks, POk(check_advance(toks, r.cur, "LeftBrace"), <<>>))
           [] check(toks, r.cur, "If") ->
                  if_stmt(toks, POk(check_advance(toks, r.cur, "If"), <<>>))
           [] OTHER -> expr_stmt(toks, r)

\* The Var arm of declaration after the consume of the name.
var_initializer(toks, n) ==
    IF ~n.ok THEN n
    ELSE MakeVar(p_previous(toks, n.cur).lexeme, check(toks, n.cur, "Equal"),
                 consume(toks,
                         IF check(toks, n.cur, "Equal")
                         THEN expression(toks, POk(check_advance(toks, n.cur, "Equal"), <<>>))
                         ELSE n,
                         "Semicolon", "Expecting ^;^"))

var_declaration(toks, r) ==
    var_initializer(toks, consume(toks, r, "Identifier", "Expecting var name"))

declaration(toks, r) ==
    IF ~r.ok THEN r
    ELSE IF check(toks, r.cur, "Var")
    THEN var_declaration(toks, POk(check_advance(toks, r.cur, "Var"), <<>>))
    ELSE stmt(toks, r)
\* Parser::program as a function of the tokens; r.node is `stmts`, the node
\* of an Ok is the Program's stmts.
RECURSIVE program_loop(_, _)
program_loop(toks, r) ==
    IF ~r.ok THEN r
    ELSE IF is_at_end(toks, r.cur) THEN r
    ELSE program_loop(toks, PushStmt(r.node, declaration(toks, r)))

parse_program(toks) == program_loop(toks, POk(0, <<>>))

----------------------------------------------------------------------------
(* Source texts as word sequences.  The parser is run on the tokens the    *)
(* scanner gives for a text; the words of a text are separated by a space  *)
(* (one line) or by a newline (one token per line).                        *)

kVar == <<"v", "a", "r">>
kPrint == <<"p", "r", "i", "n", "t">>
kIf == <<"i", "f">>
kElse == <<"e", "l", "s", "e">>
kOr == <<"o", "r">>
kAnd == <<"a", "n", "d">>
kNil == <<"n", "i", "l">>
kTrue == <<"t", "r", "u", "e">>

RECURSIVE Join(_, _)
Join(words, sep) ==
    IF words = <<>> THEN <<>> ELSE words[1] \o <<sep>> \o Join(Tail(words), sep)

RECURSIVE Concat(_)
Concat(seqs) == IF seqs = <<>> THEN <<>> ELSE seqs[1] \o Concat(Tail(seqs))

Separators == {" ", "\n"}

\* Freely chosen tokens.
FreeWords ==
    {<<"1">>, <<"a">>, <<"=">>, <<"+">>, <<";">>, <<"(">>, <<")">>, <<"{">>, <<"}">>,
     kVar, kPrint, kIf}

FreeTexts == SeqsUpTo(FreeWords, MaxToks)

\* Operator chains: operands 1, 2, 3, ... separated by binary and logical
\* operators, at most one operand under a unary operator, then `;`.
ChainOps == {kOr, kAnd, <<"=", "=">>, <<"<">>, <<"+">>, <<"-">>, <<"*">>}

PrefixOps == {<<"!">>, <<"-">>}

DigitChar(i) ==
    CASE i = 0 -> "0" [] i = 1 -> "1" [] i = 2 -> "2" [] i = 3 -> "3" [] i = 4 -> "4"
      [] i = 5 -> "5" [] i = 6 -> "6" [] i = 7 -> "7" [] i = 8 -> "8" [] i = 9 -> "9"

ChainText(ops, pos, pre) ==
    Concat([i \in 1..(Len(ops) + 1) |->
               (IF i = pos THEN <<pre>> ELSE <<>>) \o <<<<DigitChar(i)>>>>
                   \o (IF i <= Len(ops) THEN <<ops[i]>> ELSE <<>>)])
        \o <<<<";">>>>

ChainTexts ==
    UNION {{ChainText(ops, pos, pre) : pos \in 0..(Len(ops) + 1), pre \in PrefixOps}
           : ops \in SeqsUpTo(ChainOps, MaxOps)}

\* Assignment chains: target = target = ... value ;
AssignTargets ==
    {<<<<"a">>>>, <<<<"1">>>>, <<<<"(">>, <<"a">>, <<")">>>>, <<<<"a">>, <<"+">>, <<"b">>>>}

AssignValues == {<<<<"2">>>>, <<<<"b">>>>, <<>>, <<<<")">>>>}

AssignText(targets, value) ==
    Concat([i \in 1..Len(targets) |-> targets[i] \o <<<<"=">>>>]) \o value \o <<<<";">>>>

AssignTexts ==
    {AssignText(ts, v) : ts \in SeqsUpTo(AssignTargets, MaxAssign) \ {<<>>},
                         v \in AssignValues}

\* Some whole programs.
SampleTexts ==
    {<<kIf, <<"(">>, <<"a">>, <<")">>, kPrint, <<"1">>, <<";">>, kElse,
       <<"{">>, kVar, <<"a">>, <<"=">>, <<"1">>, <<";">>, <<"}">>>>,
     <<kIf, <<"(">>, <<"a">>, <<")">>, <<"{">>, <<"}">>, kPrint, <<"1">>, <<";">>>>,
     <<kVar, <<"a">>, <<";">>, <<"{">>, <<"a">>, <<"=">>, <<"1">>, <<";">>, <<"}">>,
       kPrint, <<"a">>, <<";">>>>,
     <<<<"1">>, <<";">>, <<")">>, <<";">>, <<"2">>, <<";">>>>,
     <<kPrint, <<"1">>, <<";">>, <<"{">>, <<"2">>, <<";">>, <<"(">>, <<"3">>, <<";">>,
       <<"}">>, <<"4">>, <<";">>>>,
     <<kIf, <<"(">>, <<"1">>, <<")">>, <<"1">>, <<";">>, kElse>>,
     <<<<"a">>, <<"-">>, <<"b">>, <<"-">>, <<"c">>, <<";">>>>,
     <<<<"a">>, <<"=">>, <<"b">>, <<"=">>, <<"c">>, <<";">>>>}

ParseTexts == FreeTexts \cup ChainTexts \cup AssignTexts \cup SampleTexts

----------------------------------------------------------------------------
(* parse_program (parser.rs:304-310, 568-571) as a state machine: one step *)
(* per iteration of Parser::program's loop.                                *)

InitParse ==
    /\ \E text \in ParseTexts, sep \in Separators :
          p_tokens = tokenize(Join(text, sep)).tokens
    /\ p_current = 0
    /\ p_stmts = <<>>
    /\ p_diags = <<>>
    /\ p_result = [status |-> "pending"]
    /\ ScanIdle
    /\ RunIdle
    /\ CmdIdle

\* `stmts.push(self.declaration()?)`: an Err leaves the loop and program.
PushOrReturn(d) ==
    /\ p_current' = d.cur
    /\ p_diags' = p_diags \o d.diags
    /\ IF d.ok
       THEN p_stmts' = Append(p_stmts, d.node) /\ UNCHANGED p_result
       ELSE p_result' = [status |-> "Err"] /\ UNCHANGED p_stmts

ParseDeclaration ==
    /\ p_result.status = "pending"
    /\ ~is_at_end(p_tokens, p_current)
    /\ PushOrReturn(declaration(p_tokens, POk(p_current, <<>>)))
    /\ UNCHANGED <<p_tokens, scanVars, runVars, cmdVars>>

\* The cursor is on Eof: `Ok(Program { stmts })`.
ParseFinish ==
    /\ p_result.status = "pending"
    /\ is_at_end(p_tokens, p_current)
    /\ p_result' = [status |-> "Ok", program |-> p_stmts]
    /\ UNCHANGED <<p_tokens, p_current, p_stmts, p_diags, scanVars, runVars, cmdVars>>

NextParse == ParseDeclaration \/ ParseFinish

SpecParse == InitParse /\ [][NextParse]_vars

----------------------------------------------------------------------------
(* Runtime values (interpreter.rs:7-50).  A Value is [t, v]. *)

NilV == [t |-> "Nil", v |-> <<>>]

BoolV(b) == [t |-> "Bool", v |-> b]

NumberV(x) == [t |-> "Number", v |-> x]

StringV(s) == [t |-> "String", v |-> s]

\* An equality under which a NaN equals itself.
ValueEqSameBits(a, b) == a.t = b.t /\ a.v = b.v

\* #[derive(PartialEq)] on Value: same variant and equal payloads.
ValueEq(a, b) ==
    /\ a.t = b.t
    /\ IF a.t = "Number" THEN F64Eq(a.v, b.v) ELSE a.v = b.v

\* impl Display for Value.
DisplayValue(val) ==
    CASE val.t = "Nil" -> "nil"
      [] val.t = "Bool" -> IF val.v THEN "true" ELSE "false"
      [] val.t = "Number" -> DisplayF64(val.v)
      [] val.t = "String" -> Chars(val.v)

RuntimeError(ln, msg) == [line |-> ln, msg |-> msg]

\* A truthiness for which the number 0 and the empty string are falsy too.
to_bool_zero_falsy(val) ==
    CASE val.t = "Nil" -> FALSE
      [] val.t = "Bool" -> val.v
      [] val.t = "Number" -> val.v # <<0, 1>>
      [] OTHER -> val.v # <<>>

to_bool(val) ==
    CASE val.t = "Nil" -> FALSE
      [] val.t = "Bool" -> val.v
      [] OTHER -> TRUE

\* expect_number: <<x>> for Ok(x), <<>> for the "Expecting a number" error.
expect_number(val) == IF val.t = "Number" THEN <<val.v>> ELSE <<>>

----------------------------------------------------------------------------
(* Environment (interpreter.rs:52-92): a stack of scopes, the innermost *)
(* last; a scope is a function from names to Values.                       *)

EmptyScope == <<>>

\* An insert that keeps the value of a name the scope already holds.
ScopeInsertKeeping(scope, name, val) ==
    [n \in (DOMAIN scope) \cup {name} |-> IF n \in DOMAIN scope THEN scope[n] ELSE val]

\* HashMap::insert
ScopeInsert(scope, name, val) ==
    [n \in (DOMAIN scope) \cup {name} |-> IF n = name THEN val ELSE scope[n]]

\* Environment::default
env_default == <<EmptyScope>>

\* A lookup that searches from the outermost scope inward.
RECURSIVE env_get_outermost(_, _)
env_get_outermost(env, name) ==
    IF env = <<>> THEN <<>>
    ELSE IF name \in DOMAIN env[1] THEN <<env[1][name]>>
    ELSE env_get_outermost(Tail(env), name)

\* Environment::get: <<v>> for Some(v), <<>> for None.
RECURSIVE env_get(_, _)
env_get(env, name) ==
    IF env = <<>> THEN <<>>
    ELSE IF name \in DOMAIN env[Len(env)] THEN <<env[Len(env)][name]>>
    ELSE env_get(SubSeq(env, 1, Len(env) - 1), name)

\* The index of the innermost scope holding name, 0 when there is none.
RECURSIVE ScopeOf(_, _)
ScopeOf(env, name) ==
    IF env = <<>> THEN 0
    ELSE IF name \in DOMAIN env[Len(env)] THEN Len(env)
    ELSE ScopeOf(SubSeq(env, 1, Len(env) - 1), name)

\* An assignment that overwrites the outermost binding of the name.
env_set_outermost(env, name, val) ==
    LET ks == {i \in 1..Len(env) : name \in DOMAIN env[i]}
    IN  IF ks = {} THEN [ok |-> FALSE, scopes |-> env]
        ELSE LET k == CHOOSE i \in ks : \A j \in ks : i <= j
             IN  [ok |-> TRUE,
                  scopes |-> [env EXCEPT ![k] = ScopeInsert(env[k], name, val)]]

\* An assignment that declares the name when no scope holds it.
env_set_declaring(env, name, val) ==
    LET k == IF ScopeOf(env, name) = 0 THEN Len(env) ELSE ScopeOf(env, name)
    IN  [ok |-> TRUE,
         scopes |-> [env EXCEPT ![k] = ScopeInsert(env[k], name, val)]]

\* Environment::set: [ok, env].
env_set(env, name, val) ==
    LET k == ScopeOf(env, name)
    IN  IF k = 0 THEN [ok |-> FALSE, scopes |-> env]
        ELSE [ok |-> TRUE,
              scopes |-> [env EXCEPT ![k] = ScopeInsert(env[k], name, val)]]

\* A push and a pop that leave the stack as it is.
env_push_nothing(env) == env

env_pop_nothing(env) == env

\* A push of two scopes.
env_push_twice(env) == Append(Append(env, EmptyScope), EmptyScope)

\* Environment::push
env_push(env) == Append(env, EmptyScope)

\* Environment::pop: Vec::pop, which leaves an empty Vec empty.
env_pop(env) ==
    IF env = <<>> THEN env ELSE SubSeq(env, 1, Len(env) - 1)

----------------------------------------------------------------------------
(* evaluate (interpreter.rs:94-189).  The result is [ok, val, env, err]: *)
(* the environment as the evaluation left it, and the Value or the         *)
(* RuntimeError.                                                           *)

EOk(val, env) == [ok |-> TRUE, val |-> val, scopes |-> env, err |-> <<>>]

EErr(err, env) == [ok |-> FALSE, val |-> <<>>, scopes |-> env, err |-> err]

\* The error of an operator that would also take a string.
ExpectingNumberOrString(ln) == RuntimeError(ln, "Expecting a number or a string")

ExpectingNumber(ln) == RuntimeError(ln, "Expecting a number")

\* The value of a numeric operator on two numbers.
NumericResult(op, a, b) ==
    CASE op = "Sub" -> NumberV(F64Sub(a, b))
      [] op = "Mul" -> NumberV(F64Mul(a, b))
      [] op = "Div" -> NumberV(F64Div(a, b))
      [] op = "Less" -> BoolV(F64Lt(a, b))
      [] op = "LessEqual" -> BoolV(F64Lt(a, b) \/ F64Eq(a, b))
      [] op = "Greater" -> BoolV(F64Lt(b, a))
      [] op = "GreaterEqual" -> BoolV(F64Lt(b, a) \/ F64Eq(a, b))

\* The `match binary.op` of the Binary arm, both operands evaluated; the
\* numeric operators send both through expect_number, the left one first.
ApplyBinary(ln, op, left, right, env) ==
    CASE op = "Add" ->
            (CASE left.t = "Number" ->
                    IF right.t = "Number"
                    THEN EOk(NumberV(F64Add(left.v, right.v)), env)
                    ELSE EErr(ExpectingNumber(ln), env)
               [] left.t = "String" ->
                    IF right.t = "String"
                    THEN EOk(StringV(left.v \o right.v), env)
                    ELSE EErr(RuntimeError(ln, "Expecting a string"), env)
               [] OTHER -> EErr(RuntimeError(ln, "Expecting a number or a string"), env))
      [] op = "Equal" -> EOk(BoolV(ValueEq(left, right)), env)
      [] op = "NotEqual" -> EOk(BoolV(~ValueEq(left, right)), env)
      [] OTHER ->
            IF expect_number(left) = <<>> \/ expect_number(right) = <<>>
            THEN EErr(ExpectingNumber(ln), env)
            ELSE EOk(NumericResult(op, left.v, right.v), env)

\* A logical operator that evaluates its right operand in every case.
eval_right_always(op, left_as_bool) == TRUE

\* The Logical arm: `let eval_right = match logical.op { .. }`.
eval_right(op, left_as_bool) ==
    IF op = "And" THEN left_as_bool ELSE ~left_as_bool

LiteralValue(e) ==
    CASE e.lit = "Number" -> NumberV(e.val)
      [] e.lit = "String" -> StringV(e.val)
      [] e.lit = "True" -> BoolV(TRUE)
      [] e.lit = "False" -> BoolV(FALSE)
      [] e.lit = "Nil" -> NilV

RECURSIVE evaluate(_, _)

\* Operands evaluated from the right: the right one first, the left one in
\* the environment the right one left.
BinaryOperandsRightFirst(expr, env) ==
    LET r == evaluate(expr.right, env)
    IN  IF ~r.ok THEN [ok |-> FALSE, err |-> r, left |-> r, right |-> r]
        ELSE LET l == evaluate(expr.left, r.scopes)
             IN  [ok |-> l.ok, err |-> l, left |-> l, right |-> [r EXCEPT !.scopes = l.scopes]]

\* The Binary arm: `let left = evaluate(&binary.left, ctx)?;` and then
\* `let right = evaluate(&binary.right, ctx)?;`.  err is the result that `?`
\* returns when ok is FALSE.
BinaryOperands(expr, env) ==
    LET l == evaluate(expr.left, env)
    IN  IF ~l.ok THEN [ok |-> FALSE, err |-> l, left |-> l, right |-> l]
        ELSE LET r == evaluate(expr.right, l.scopes)
             IN  [ok |-> r.ok, err |-> r, left |-> l, right |-> r]

evaluate(expr, env) ==
    CASE expr.kind = "Literal" -> EOk(LiteralValue(expr), env)
      [] expr.kind = "Variable" ->
            LET got == env_get(env, expr.name)
            IN  IF got # <<>> THEN EOk(got[1], env)
                ELSE EErr(RuntimeError(expr.line,
                              "Undefined variable '" \o Chars(expr.name) \o "'."), env)
      [] expr.kind = "Unary" ->
            LET r == evaluate(expr.expr, env)
            IN  IF ~r.ok THEN r
                ELSE IF expr.op = "Negative"
                THEN IF expect_number(r.val) = <<>>
                     THEN EErr(ExpectingNumber(expr.line), r.scopes)
                     ELSE EOk(NumberV(F64Neg(r.val.v)), r.scopes)
                ELSE EOk(BoolV(~to_bool(r.val)), r.scopes)
      [] expr.kind = "Grouping" -> evaluate(expr.expr, env)
      [] expr.kind = "Binary" ->
            LET b == BinaryOperands(expr, env)
            IN  IF ~b.ok THEN b.err
                ELSE ApplyBinary(expr.line, expr.op, b.left.val, b.right.val,
                                 b.right.scopes)
      [] expr.kind = "Logical" ->
            LET l == evaluate(expr.left, env)
            IN  IF ~l.ok THEN l
                ELSE IF eval_right(expr.op, to_bool(l.val))
                     THEN evaluate(expr.right, l.scopes)
                     ELSE l
      [] expr.kind = "Assign" ->
            LET r == evaluate(expr.rhs, env)
            IN  IF ~r.ok THEN r
                ELSE LET s == env_set(r.scopes, expr.name, r.val)
                     IN  IF ~s.ok
                         THEN EErr(RuntimeError(expr.line,
                                       "Variable '" \o Chars(expr.name)
                                           \o "' not declared before assignment"), r.scopes)
                         ELSE EOk(r.val, s.scopes)
----------------------------------------------------------------------------
(* The programs the evaluator is run on: up to MaxProg statements, each    *)
(* what the scanner and the parser give for its text, the i-th statement   *)
(* on line i.                                                              *)

StmtTexts ==
    {<<kVar, <<"x">>, <<"=">>, <<"1">>, <<";">>>>,
     <<kVar, <<"x">>, <<";">>>>,
     <<kPrint, <<"x">>, <<";">>>>,
     <<<<"x">>, <<"=">>, <<"5">>, <<";">>>>,
     <<<<"{">>, kVar, <<"x">>, <<"=">>, <<"2">>, <<";">>, <<"}">>>>,
     <<<<"{">>, <<"x">>, <<"=">>, <<"5">>, <<";">>, kVar, <<"x">>, <<"=">>, <<"2">>, <<";">>,
       kPrint, <<"x">>, <<";">>, <<"}">>>>,
     <<<<"{">>, kPrint, <<"x">>, <<";">>,
       <<"{">>, kVar, <<"x">>, <<"=">>, <<"2">>, <<";">>, kPrint, <<"y">>, <<";">>, <<"}">>,
       kPrint, <<"x">>, <<";">>, <<"}">>>>,
     <<<<"{">>, kVar, <<"x">>, <<"=">>, <<"2">>, <<";">>,
       <<"{">>, kVar, <<"x">>, <<"=">>, <<"3">>, <<";">>, <<"x">>, <<"=">>, <<"4">>, <<";">>,
       <<"}">>, kPrint, <<"x">>, <<";">>, <<"}">>>>,
     <<kIf, <<"(">>, <<"x">>, <<")">>,
       <<"{">>, kVar, <<"x">>, <<"=">>, <<"2">>, <<";">>, kPrint, <<"x">>, <<";">>, <<"}">>,
       kElse, kPrint, <<"0">>, <<";">>>>,
     <<kIf, <<"(">>, kNil, <<")">>, kPrint, <<"1">>, <<";">>>>,
     <<<<"{">>, kIf, <<"(">>, kTrue, <<")">>, kPrint, <<"y">>, <<";">>,
       kPrint, <<"7">>, <<";">>, <<"}">>>>}

\* The statement parse_program gives for a text that stands on line ln.
StmtAt(text, ln) ==
    parse_program(tokenize([i \in 1..(ln - 1) |-> "\n"] \o Join(text, " ")).tokens).node[1]

StmtNodes == [text \in StmtTexts, ln \in 1..MaxProg |-> StmtAt(text, ln)]

Programs ==
    {[i \in 1..Len(ss) |-> StmtNodes[ss[i], i]] : ss \in SeqsUpTo(StmtTexts, MaxProg)}

----------------------------------------------------------------------------
(* interpret_program and interpret_stmt (interpreter.rs:191-239) as a      *)
(* state machine.  `frames` is the call stack: at the bottom the loop of   *)
(* interpret_program, [k |-> "program", i] with i the next statement; above *)
(* it one frame [k |-> "stmt", stmt, pc, scopes0] for every active call of *)
(* interpret_stmt, scopes0 being the environment at the call (history).    *)
(* A Block frame has pc 0 before its push, pc i in 1..n before its i-th    *)
(* statement and pc n + 1 before its pop; an IfStmt frame has pc 0 before  *)
(* its condition and pc 1 once its branch has returned.                    *)

Top == frames[Len(frames)]

Below == SubSeq(frames, 1, Len(frames) - 1)

Call(s) == [k |-> "stmt", stmt |-> s, pc |-> 0, scopes0 |-> scopes]

Running(kind) ==
    /\ r_status = "run"
    /\ frames # <<>>
    /\ Top.k = "stmt"
    /\ Top.stmt.kind = kind

\* What interpret_stmt's return leaves in `lastret`.
Returned(frame, ok, popped, pshadow) ==
    [kind |-> frame.stmt.kind, ok |-> ok, scopes0 |-> frame.scopes0,
     popped |-> popped, pshadow |-> pshadow]

InitRun ==
    /\ program \in Programs
    /\ scopes = env_default
    /\ output = <<>>
    /\ frames = <<[k |-> "program", i |-> 1]>>
    /\ r_status = "run"
    /\ r_error = <<>>
    /\ shadow = <<EmptyScope>>
    /\ lastret = [kind |-> "none"]
    /\ ScanIdle
    /\ ParseIdle
    /\ CmdIdle

\* interpret_program: `interpret_stmt(stmt, &mut ctx)?` for the next stmt.
RunNextStmt ==
    /\ r_status = "run"
    /\ frames # <<>>
    /\ Top.k = "program"
    /\ Top.i <= Len(program)
    /\ frames' = Append(Append(Below, [Top EXCEPT !.i = Top.i + 1]), Call(program[Top.i]))
    /\ UNCHANGED <<program, scopes, output, r_status, r_error, shadow, lastret,
                   scanVars, parseVars, cmdVars>>

\* interpret_program: the loop is over, `Ok(())`.
RunFinish ==
    /\ r_status = "run"
    /\ frames # <<>>
    /\ Top.k = "program"
    /\ Top.i > Len(program)
    /\ frames' = <<>>
    /\ r_status' = "ok"
    /\ UNCHANGED <<program, scopes, output, r_error, shadow, lastret, scanVars, parseVars, cmdVars>>

\* interpret_stmt returns Err(e) from its top frame: the callers unwind.
Raise(r) ==
    /\ scopes' = r.scopes
    /\ r_status' = "unwind"
    /\ r_error' = <<r.err>>
    /\ frames' = Below
    /\ lastret' = Returned(Top, FALSE, <<>>, <<>>)

\* Stmt::Print
ExecPrint ==
    /\ Running("Print")
    /\ LET r == evaluate(Top.stmt.expr, scopes)
       IN  IF r.ok
           THEN /\ output' = Append(output, DisplayValue(r.val))
                /\ scopes' = r.scopes
                /\ frames' = Below
                /\ lastret' = Returned(Top, TRUE, <<>>, <<>>)
                /\ UNCHANGED <<r_status, r_error>>
           ELSE Raise(r) /\ UNCHANGED output
    /\ UNCHANGED <<program, shadow, scanVars, parseVars, cmdVars>>

\* Stmt::Expr
ExecExpr ==
    /\ Running("Expr")
    /\ LET r == evaluate(Top.stmt.expr, scopes)
       IN  IF r.ok
           THEN /\ scopes' = r.scopes
                /\ frames' = Below
                /\ lastret' = Returned(Top, TRUE, <<>>, <<>>)
                /\ UNCHANGED <<r_status, r_error>>
           ELSE Raise(r)
    /\ UNCHANGED <<program, output, shadow, scanVars, parseVars, cmdVars>>

\* Stmt::Var: the initializer (or Nil), then the insert into the last scope.
ExecVar ==
    /\ Running("Var")
    /\ LET s == Top.stmt
           r == IF s.initializer # <<>> THEN evaluate(s.initializer[1], scopes)
                ELSE EOk(NilV, scopes)
           n == Len(r.scopes)
       IN  IF r.ok
           THEN /\ scopes' = [r.scopes EXCEPT ![n] = ScopeInsert(r.scopes[n], s.name, r.val)]
                /\ shadow' = IF s.name \in DOMAIN r.scopes[n] THEN shadow
                             ELSE [shadow EXCEPT ![Len(shadow)] =
                                      ScopeInsert(shadow[Len(shadow)], s.name,
                                                  env_get(r.scopes, s.name))]
                /\ frames' = Below
                /\ lastret' = Returned(Top, TRUE, <<>>, <<>>)
                /\ UNCHANGED <<r_status, r_error>>
           ELSE Raise(r) /\ UNCHANGED shadow
    /\ UNCHANGED <<program, output, scanVars, parseVars, cmdVars>>

\* Stmt::IfStmt: the condition, then the call of the chosen branch.
ExecIf ==
    /\ Running("IfStmt")
    /\ Top.pc = 0
    /\ LET s == Top.stmt
           r == evaluate(s.condition, scopes)
       IN  IF ~r.ok THEN Raise(r)
           ELSE /\ scopes' = r.scopes
                /\ UNCHANGED <<r_status, r_error>>
                /\ IF to_bool(r.val)
                   THEN /\ frames' = Append(Append(Below, [Top EXCEPT !.pc = 1]),
                                            [Call(s.then_branch) EXCEPT !.scopes0 = r.scopes])
                        /\ UNCHANGED lastret
                   ELSE IF s.else_branch # <<>>
                   THEN /\ frames' = Append(Append(Below, [Top EXCEPT !.pc = 1]),
                                            [Call(s.else_branch[1]) EXCEPT !.scopes0 = r.scopes])
                        /\ UNCHANGED lastret
                   ELSE /\ frames' = Below
                        /\ lastret' = Returned(Top, TRUE, <<>>, <<>>)
    /\ UNCHANGED <<program, output, shadow, scanVars, parseVars, cmdVars>>

\* Stmt::IfStmt: the branch returned Ok, so does the if.
IfReturn ==
    /\ Running("IfStmt")
    /\ Top.pc = 1
    /\ frames' = Below
    /\ lastret' = Returned(Top, TRUE, <<>>, <<>>)
    /\ UNCHANGED <<program, scopes, output, r_status, r_error, shadow, scanVars, parseVars, cmdVars>>

\* Stmt::Block: `ctx.push()`
BlockEnter ==
    /\ Running("Block")
    /\ Top.pc = 0
    /\ scopes' = env_push(scopes)
    /\ shadow' = Append(shadow, EmptyScope)
    /\ frames' = Append(Below, [Top EXCEPT !.pc = 1])
    /\ UNCHANGED <<program, output, r_status, r_error, lastret, scanVars, parseVars, cmdVars>>

\* Stmt::Block: `interpret_stmt(stmt, ctx)?` for the next stmt of the block.
BlockNext ==
    /\ Running("Block")
    /\ Top.pc \in 1..Len(Top.stmt.stmts)
    /\ frames' = Append(Append(Below, [Top EXCEPT !.pc = Top.pc + 1]),
                        Call(Top.stmt.stmts[Top.pc]))
    /\ UNCHANGED <<program, scopes, output, r_status, r_error, shadow, lastret,
                   scanVars, parseVars, cmdVars>>

\* Stmt::Block: the loop is over, `ctx.pop()` and Ok(()).
BlockExit ==
    /\ Running("Block")
    /\ Top.pc = Len(Top.stmt.stmts) + 1
    /\ scopes' = env_pop(scopes)
    /\ shadow' = SubSeq(shadow, 1, Len(shadow) - 1)
    /\ frames' = Below
    /\ lastret' = Returned(Top, TRUE, scopes[Len(scopes)], shadow[Len(shadow)])
    /\ UNCHANGED <<program, output, r_status, r_error, scanVars, parseVars, cmdVars>>

\* A caller that goes on after a call that returned Err.
UnwindResuming ==
    /\ r_status = "unwind"
    /\ frames # <<>>
    /\ frames' = frames
    /\ r_status' = "run"
    /\ UNCHANGED <<program, scopes, output, r_error, shadow, lastret, scanVars, parseVars, cmdVars>>

\* `?`: the caller of a call that returned Err returns the Err at once, with
\* nothing else done; out of interpret_program's loop it is the run's result.
Unwind ==
    /\ r_status = "unwind"
    /\ frames # <<>>
    /\ frames' = Below
    /\ IF Top.k = "program"
       THEN r_status' = "err" /\ UNCHANGED lastret
       ELSE lastret' = Returned(Top, FALSE, <<>>, <<>>) /\ UNCHANGED r_status
    /\ UNCHANGED <<program, scopes, output, r_error, shadow, scanVars, parseVars, cmdVars>>

NextRun ==
    \/ RunNextStmt \/ RunFinish
    \/ ExecPrint \/ ExecExpr \/ ExecVar
    \/ ExecIf \/ IfReturn
    \/ BlockEnter \/ BlockNext \/ BlockExit
    \/ Unwind

SpecRun == InitRun /\ [][NextRun]_vars

----------------------------------------------------------------------------
(* A second family of programs for the evaluator: a statement under test   *)
(* inside up to MaxDepth scopes.  Scope i (the global scope is scope 1)    *)
(* declares a subset of the names x and y before the next block opens, x   *)
(* with the value i and y with the value MaxDepth + i; the statement under *)
(* test follows the declarations of the innermost scope:                   *)
(*     var x = 1; { var x = 2; var y = 5; {                                *)
(*     TEST } }                                                            *)
(* The declarations stand on line 1 and the statement under test begins on *)
(* line 2.  The statements that use no variable are run in the global      *)
(* scope alone.                                                            *)

MaxDepth == 3

kFalse == <<"f", "a", "l", "s", "e">>

nl == <<"\n">>

EnvNames == {<<"x">>, <<"y">>}

DeclDigit(name, i) == IF name = <<"x">> THEN i ELSE MaxDepth + i

DeclText(name, i) == <<kVar, name, <<"=">>, <<DigitChar(DeclDigit(name, i))>>, <<";">>>>

DeclNodes == [name \in EnvNames, i \in 1..MaxDepth |-> StmtAt(DeclText(name, i), 1)]

EnvShapes == UNION {[1..d -> SUBSET EnvNames] : d \in 1..MaxDepth}

\* Operands of the logical operators and conditions of the if statements.
TruthTexts == {<<kNil>>, <<kFalse>>, <<kTrue>>, <<<<"0">>>>, <<<<"\"", "\"">>>>}

\* Operands of `+`.
LeftTexts == {<<"1">>, <<"\"", "a", "\"">>, kNil, kTrue}

RightTexts == {<<"2">>, <<"\"", "b", "\"">>, kNil, kFalse}

AssignTests ==
    {<<<<"x">>, <<"=">>, <<"9">>, <<";">>>>,
     <<kPrint, <<"y">>, <<"=">>, <<"9">>, <<";">>>>,
     <<<<"x">>, <<"=">>, <<"y">>, <<"=">>, <<"9">>, <<";">>>>}

VarTests ==
    {<<kVar, <<"x">>, <<"=">>, <<"9">>, <<";">>>>,
     <<kVar, <<"x">>, <<";">>>>,
     <<kVar, <<"x">>, <<"=">>, <<"x">>, <<";">>>>,
     <<kVar, <<"y">>, <<"=">>, <<"x">>, <<";">>>>}

LogicalTests ==
    {<<kPrint>> \o l \o <<op, <<"(">>, <<"x">>, <<"=">>, <<"9">>, <<")">>, <<";">>>>
        : l \in TruthTexts \ {<<kTrue>>}, op \in {kAnd, kOr}}

ReadTests ==
    {<<kPrint, nl, <<"x">>, <<";">>>>,
     <<kPrint, <<"y">>, nl, <<";">>>>}

IfEnvTests ==
    {<<kIf, <<"(">>, <<"x">>, <<"=">>, <<"x">>, <<"+">>, <<"1">>, <<")">>,
       kPrint, <<"x">>, <<";">>, kElse, kPrint, <<"0">>, <<";">>>>}

\* if (c) print 1;  with or without  else print 2;
ElseTexts == {<<>>, <<kElse, kPrint, <<"2">>, <<";">>>>}

IfText(c, e) == <<kIf, <<"(">>>> \o c \o <<<<")">>, kPrint, <<"1">>, <<";">>>> \o e

IfTests == {IfText(c, e) : c \in TruthTexts, e \in ElseTexts}

AddTests ==
    {<<kPrint, l, <<"+">>, r, <<";">>>> : l \in LeftTexts, r \in RightTexts}

\* Operands of `==` and `!=`: nil, true, false, 1, 2, "a", "1", "", 0 / 0
\* and 1 / 0.
EqOperands ==
    {<<kNil>>, <<kTrue>>, <<kFalse>>, <<<<"1">>>>, <<<<"2">>>>,
     <<<<"\"", "a", "\"">>>>, <<<<"\"", "1", "\"">>>>, <<<<"\"", "\"">>>>,
     <<<<"0">>, <<"/">>, <<"0">>>>, <<<<"1">>, <<"/">>, <<"0">>>>}

EqTests ==
    {<<kPrint>> \o l \o <<op>> \o r \o <<<<";">>>>
        : l \in EqOperands, r \in EqOperands, op \in {<<"=", "=">>, <<"!", "=">>}}

\* Binary nodes whose operands assign, fail, or have the wrong type.
BinaryTests ==
    {<<kPrint, kNil, <<"-">>, <<"(">>, <<"x">>, <<"=">>, <<"9">>, <<")">>, <<";">>>>,
     <<kPrint, <<"(">>, <<"x">>, <<"=">>, <<"8">>, <<")">>, <<"<">>,
       <<"(">>, <<"x">>, <<"=">>, kNil, <<")">>, <<";">>>>,
     <<kPrint, kNil, <<"*">>, <<"z">>, <<";">>>>,
     <<kPrint, <<"(">>, <<"x">>, <<"=">>, kNil, <<")">>, <<"+">>,
       <<"(">>, <<"y">>, <<"=">>, <<"9">>, <<")">>, <<";">>>>}

\* The statements run in every environment, and those run in the global
\* scope alone.
EnvTests ==
    AssignTests \cup VarTests \cup LogicalTests \cup ReadTests \cup IfEnvTests
        \cup BinaryTests

GlobalTests == IfTests \cup AddTests \cup EqTests

TestNodes == [text \in EnvTests \cup GlobalTests |-> StmtAt(text, 2)]

Declarations(names, i) ==
    (IF <<"x">> \in names THEN <<DeclNodes[<<"x">>, i]>> ELSE <<>>)
        \o (IF <<"y">> \in names THEN <<DeclNodes[<<"y">>, i]>> ELSE <<>>)

\* The statements of scope i of the program for a shape and a statement.
RECURSIVE Nest(_, _, _)
Nest(shape, i, test) ==
    Declarations(shape[i], i)
        \o (IF i = Len(shape) THEN <<test>> ELSE <<BlockS(Nest(shape, i + 1, test))>>)

EnvPrograms ==
    {Nest(shape, 1, TestNodes[text]) : shape \in EnvShapes, text \in EnvTests}
        \cup {<<TestNodes[text]>> : text \in GlobalTests}

\* interpret_program on one of these programs.
InitEnv ==
    /\ program \in EnvPrograms
    /\ scopes = env_default
    /\ output = <<>>
    /\ frames = <<[k |-> "program", i |-> 1]>>
    /\ r_status = "run"
    /\ r_error = <<>>
    /\ shadow = <<EmptyScope>>
    /\ lastret = [kind |-> "none"]
    /\ ScanIdle
    /\ ParseIdle
    /\ CmdIdle

SpecEnv == InitEnv /\ [][NextRun]_vars

----------------------------------------------------------------------------
(* The stand-alone tokenizer of main.rs (83-258).  Its Scanner is the one  *)
(* of tokenizer.rs, method by method; its scan_token has no identifier arm *)
(* (a letter or `_` goes to the catch-all arm), a StringLiteral and a      *)
(* Number carry their literal value, and a Token has no line.              *)

\* TokenType::name
TokenName(ttype) ==
    CASE ttype = "LeftParen" -> "LEFT_PAREN"
      [] ttype = "RightParen" -> "RIGHT_PAREN"
      [] ttype = "LeftBrace" -> "LEFT_BRACE"
      [] ttype = "RightBrace" -> "RIGHT_BRACE"
      [] ttype = "Comma" -> "COMMA"
      [] ttype = "Dot" -> "DOT"
      [] ttype = "Minus" -> "MINUS"
      [] ttype = "Plus" -> "PLUS"
      [] ttype = "Semicolon" -> "SEMICOLON"
      [] ttype = "Slash" -> "SLASH"
      [] ttype = "Star" -> "STAR"
      [] ttype = "Bang" -> "BANG"
      [] ttype = "BangEqual" -> "BANG_EQUAL"
      [] ttype = "Equal" -> "EQUAL"
      [] ttype = "EqualEqual" -> "EQUAL_EQUAL"
      [] ttype = "Greater" -> "GREATER"
      [] ttype = "GreaterEqual" -> "GREATER_EQUAL"
      [] ttype = "Less" -> "LESS"
      [] ttype = "LessEqual" -> "LESS_EQUAL"
      [] ttype = "Identifier" -> "IDENTIFIER"
      [] ttype = "StringLiteral" -> "STRING"
      [] ttype = "Number" -> "NUMBER"
      [] ttype = "Eof" -> "EOF"

\* TokenType::literal_str; the payload of the token type is `literal`.
literal_str(token) ==
    CASE token.token_type = "StringLiteral" -> Chars(token.literal)
      [] token.token_type = "Number" -> DebugF64(token.literal)
      [] OTHER -> "null"

\* scan_token of main.rs up to the choice of the token type.
MainScanArm(src, sc0) ==
    LET c   == src[sc0.current + 1]
        sc1 == advance(src, sc0)
    IN  CASE c \in {" ", "\t", "\n"} -> [sc |-> sc1, errs |-> <<>>, ttype |-> "none"]
          [] c \in SingleChars -> [sc |-> sc1, errs |-> <<>>, ttype |-> SingleCharType(c)]
          [] c \in OneOrTwoChars ->
                LET sc2 == is_match(src, sc1, "=")
                IN  [sc |-> sc2, errs |-> <<>>,
                     ttype |-> IF sc2 # sc1 THEN TwoCharOpType(c) ELSE OneCharOpType(c)]
          [] c = "/" ->
                LET sc2 == is_match(src, sc1, "/")
                IN  IF sc2 # sc1
                    THEN [sc |-> SkipComment(src, sc2), errs |-> <<>>, ttype |-> "none"]
                    ELSE [sc |-> sc1, errs |-> <<>>, ttype |-> "Slash"]
          [] c = "\"" ->
                LET r == ScanString(src, sc1)
                IN  IF r.closed
                    THEN [sc |-> r.sc, errs |-> <<>>, ttype |-> "StringLiteral"]
                    ELSE [sc |-> r.sc, errs |-> <<UnterminatedDiag(sc0, r.sc)>>,
                          ttype |-> "none"]
          [] c \in Digits ->
                [sc |-> ScanNumber(src, sc1), errs |-> <<>>, ttype |-> "Number"]
          [] OTHER -> UnexpectedChar(sc1, c)

\* struct Token of main.rs, the literal of the token type beside it.
MainToken(ttype, lexeme) ==
    [token_type |-> ttype, lexeme |-> lexeme,
     literal |-> CASE ttype = "StringLiteral" -> SubSeq(lexeme, 2, Len(lexeme) - 1)
                   [] ttype = "Number" -> parse_f64(lexeme)
                   [] OTHER -> <<>>]

main_scan_token(src, sc0) ==
    LET r == MainScanArm(src, sc0)
    IN  [sc   |-> r.sc,
         errs |-> r.errs,
         toks |-> IF r.ttype = "none" THEN <<>>
                  ELSE <<MainToken(r.ttype, substr(src, sc0.current, r.sc.current))>>]

\* tokenize of main.rs: (tokens, scanner.had_error), and what it wrote to
\* stderr on the way.
RECURSIVE main_tokenize_loop(_, _, _, _)
main_tokenize_loop(src, sc, toks, errs) ==
    IF has_more(src, sc)
    THEN LET r == main_scan_token(src, sc)
         IN  main_tokenize_loop(src, r.sc, toks \o r.toks, errs \o r.errs)
    ELSE [tokens |-> Append(toks, MainToken("Eof", <<>>)),
          had_error |-> errs # <<>>, stderr |-> errs]

main_tokenize(contents) ==
    main_tokenize_loop(contents, [current |-> 0, line |-> 1], <<>>, <<>>)

\* `println!("{} {} {}", name, lexeme, literal_str)`
TokenLine(token) ==
    TokenName(token.token_type) \o " " \o Chars(token.lexeme) \o " " \o literal_str(token)

----------------------------------------------------------------------------
(* cmd_tokenize (main.rs:260-276) as a state machine: the call of          *)
(* tokenize, one step per printed token, and the return of the exit code.  *)

\* Longest file the command is run on.
MaxFileLen == 3

InitCmd ==
    /\ file_contents \in SeqsUpTo(Alphabet, MaxFileLen)
    /\ c_tokens = <<>>
    /\ c_had_error = FALSE
    /\ c_stderr = <<>>
    /\ stdout = <<>>
    /\ exit_code = <<>>
    /\ cpc = "tokenize"
    /\ ScanIdle
    /\ ParseIdle
    /\ RunIdle

\* `let (tokens, had_error) = tokenize(&file_contents);`
CmdTokenize ==
    /\ cpc = "tokenize"
    /\ LET r == main_tokenize(file_contents)
       IN  /\ c_tokens' = r.tokens
           /\ c_had_error' = r.had_error
           /\ c_stderr' = r.stderr
    /\ cpc' = "print"
    /\ UNCHANGED <<file_contents, stdout, exit_code, scanVars, parseVars, runVars>>

\* One iteration of `for token in tokens { println!(..) }`.
CmdPrint ==
    /\ cpc = "print"
    /\ Len(stdout) < Len(c_tokens)
    /\ stdout' = Append(stdout, TokenLine(c_tokens[Len(stdout) + 1]))
    /\ UNCHANGED <<file_contents, c_tokens, c_had_error, c_stderr, exit_code, cpc,
                   scanVars, parseVars, runVars>>

\* A command that reports success in every case.
CmdExitSuccess ==
    /\ cpc = "print"
    /\ Len(stdout) = Len(c_tokens)
    /\ exit_code' = <<0>>
    /\ cpc' = "exit"
    /\ UNCHANGED <<file_contents, c_tokens, c_had_error, c_stderr, stdout,
                   scanVars, parseVars, runVars>>

\* `if had_error { ExitCode::from(65) } else { ExitCode::SUCCESS }`
CmdExit ==
    /\ cpc = "print"
    /\ Len(stdout) = Len(c_tokens)
    /\ exit_code' = IF c_had_error THEN <<65>> ELSE <<0>>
    /\ cpc' = "exit"
    /\ UNCHANGED <<file_contents, c_tokens, c_had_error, c_stderr, stdout,
                   scanVars, parseVars, runVars>>

NextCmd == CmdTokenize \/ CmdPrint \/ CmdExit

SpecCmd == InitCmd /\ [][NextCmd]_vars

----------------------------------------------------------------------------
(* tokenize (tokenizer.rs:319-333) on source texts made for its operator,  *)
(* number and identifier arms: runs of operator characters, runs of digits *)
(* and dots, and words that are, begin with, end with or contain a         *)
(* reserved word.                                                          *)

MaxOpLen == 4

MaxNumLen == 5

MaxWords == 2

OpAlphabet == {"!", "=", ">", "<", "1"}

NumAlphabet == {"1", "2", "3", "."}

\* The sixteen words of get_keyword's match, as the source spells them.
WordList ==
    <<kAnd, <<"c", "l", "a", "s", "s">>, kElse, kFalse, <<"f", "u", "n">>,
      <<"f", "o", "r">>, kIf, kNil, kOr, kPrint,
      <<"r", "e", "t", "u", "r", "n">>, <<"s", "u", "p", "e", "r">>,
      <<"t", "h", "i", "s">>, kTrue, kVar, <<"w", "h", "i", "l", "e">>>>

\* Each word, and what a character more or a character less makes of it.
LexWords ==
    LET ws == {WordList[i] : i \in 1..Len(WordList)}
    IN  ws \cup {w \o <<c>> : w \in ws, c \in {"1", "_", "s"}}
           \cup {<<c>> \o w : w \in ws, c \in {"_", "a", "1"}}
           \cup {SubSeq(w, 1, Len(w) - 1) : w \in ws}
           \cup {[w EXCEPT ![1] = "O"] : w \in {kOr}}
           \cup {<<"o", "r", "c", "h", "i", "d">>, <<"v", "a", "r", "1">>}

\* The words that sources of several words are made of.
PhraseWords ==
    {kOr, kIf, <<"_", "i", "f">>, <<"v", "a", "r", "1">>, <<"x">>, <<"=">>}

LexSources ==
    SeqsUpTo(OpAlphabet, MaxOpLen) \cup SeqsUpTo(NumAlphabet, MaxNumLen) \cup LexWords
        \cup {Join(ws, " ") : ws \in SeqsUpTo(PhraseWords, MaxWords)}

InitLex ==
    /\ source \in LexSources
    /\ current = 0
    /\ line = 1
    /\ had_error = FALSE
    /\ tokens = <<>>
    /\ errlog = <<>>
    /\ spc = "scan"
    /\ ParseIdle
    /\ RunIdle
    /\ CmdIdle

SpecLex == InitLex /\ [][NextScan]_vars

----------------------------------------------------------------------------
(* The components together. *)

Init == InitScan \/ InitParse \/ InitRun \/ InitEnv \/ InitCmd \/ InitLex

Next == NextScan \/ NextParse \/ NextRun \/ NextCmd

Spec == Init /\ [][Next]_vars

----------------------------------------------------------------------------
(* Reference notions the scanner claims are stated with. *)

TypesOf(toks) == [i \in 1..Len(toks) |-> toks[i].token_type]

\* The characters some arm of scan_token accepts as the first of an item.
Recognised ==
    Whitespace \cup SingleChars \cup OneOrTwoChars \cup {"/", "\""}
        \cup Digits \cup IdentStart

\* The source with every character no arm accepts replaced by a space.
Blanked(src) ==
    [i \in 1..Len(src) |-> IF src[i] \in Recognised THEN src[i] ELSE " "]

\* The 1-based line of the character at 1-based index idx.
LineOf(src, idx) == 1 + Cardinality({i \in 1..(idx - 1) : src[i] = "\n"})

\* The next scan_token call starts at a character no arm accepts.
AtUnexpected ==
    spc = "scan" /\ current < Len(source) /\ source[current + 1] \notin Recognised

\* The next scan_token call opens a string that no later quote closes.
AtUnterminated ==
    /\ spc = "scan" /\ current < Len(source)
    /\ source[current + 1] = "\""
    /\ \A i \in (current + 2)..Len(source) : source[i] # "\""

IsPrefix(s, t) == Len(s) <= Len(t) /\ SubSeq(t, 1, Len(s)) = s

----------------------------------------------------------------------------
(* C1: for every source text tokenize terminates: every scan_token call    *)
(* consumes at least one character and stays within the source, so the     *)
(* loop makes at most Len(source) iterations, and with the source consumed *)
(* tokenize returns.  The returned token sequence holds exactly one Eof    *)
(* token, its last element, whether or not lexical errors occurred.        *)
C1_EofIsLastAndOnly ==
    /\ spc = "done" =>
          /\ Len(tokens) >= 1
          /\ tokens[Len(tokens)].token_type = "Eof"
          /\ \A i \in 1..(Len(tokens) - 1) : tokens[i].token_type # "Eof"
    /\ spc = "scan" => \A i \in 1..Len(tokens) : tokens[i].token_type # "Eof"

C1_ScanTokenConsumes ==
    (spc = "scan" /\ spc' = "scan") =>
        (current' > current /\ current' <= Len(source))

\* With the source consumed the only step is the return.
C1_ReturnsAtEnd ==
    (spc = "scan" /\ current >= Len(source)) => (spc' = "done" /\ current' = current)

\* Once returned, tokenize does nothing more.
C1_DoneIsFinal == spc = "done" => UNCHANGED scanVars

\* C1: tokenize terminates and returns tokens that end in the only Eof.
C1_TokenizeTerminatesWithEof ==
    /\ []C1_EofIsLastAndOnly
    /\ [][C1_ScanTokenConsumes]_vars
    /\ [][C1_ReturnsAtEnd]_vars
    /\ [][C1_DoneIsFinal]_vars

\* A scan that met a lexical error and still returned tokens ending in Eof.
C1_Witness ==
    /\ spc = "done" /\ had_error
    /\ Len(tokens) = 3
    /\ tokens[3].token_type = "Eof"

----------------------------------------------------------------------------
(* C2: lexical errors never stop the scan.  had_error becomes true exactly *)
(* when a scan_token call meets an unexpected character or an unterminated *)
(* string; such a call emits no token and writes one diagnostic; the       *)
(* tokens emitted before stay; after an unexpected character the scan goes *)
(* on with the next character, so the tokens returned are those of the     *)
(* source with the unexpected characters blanked out.                      *)
C2_StepRecordsErrors ==
    (spc = "scan" /\ current < Len(source)) =>
        /\ had_error' = (had_error \/ AtUnexpected \/ AtUnterminated)
        /\ IsPrefix(tokens, tokens')
        /\ IsPrefix(errlog, errlog')
        /\ (AtUnexpected \/ AtUnterminated) =>
              (tokens' = tokens /\ Len(errlog') = Len(errlog) + 1)
        /\ ~(AtUnexpected \/ AtUnterminated) => errlog' = errlog
        /\ AtUnexpected => (current' = current + 1 /\ spc' = "scan")
        /\ AtUnterminated => current' = Len(source)

C2_ScanResult ==
    spc = "done" =>
        /\ had_error = (errlog # <<>>)
        /\ TypesOf(tokens) =
              TypesOf(tokenize(Blanked(source)).tokens)

\* C2: a lexical error sets had_error, emits no token and the scan goes on.
C2_LexicalErrorsDoNotStopScan ==
    [][C2_StepRecordsErrors]_vars /\ []C2_ScanResult

\* One pass that recorded two errors, with a valid token before the first
\* and a valid token after it.
C2_Witness ==
    /\ spc = "done" /\ had_error
    /\ source = <<"a", "@", "1", "\"">>
    /\ Len(errlog) = 2
    /\ TypesOf(tokens) = <<"Identifier", "Number", "Eof">>

----------------------------------------------------------------------------
(* C3: when a string is opened and the input ends before a closing quote,  *)
(* the "Unterminated string." diagnostic carries the line of the opening   *)
(* quote, also when the unterminated text holds newlines.                  *)
C3_UnterminatedAtOpeningLine_Step ==
    AtUnterminated =>
        /\ Len(errlog') = Len(errlog) + 1
        /\ errlog'[Len(errlog')].msg = "Unterminated string."
        /\ errlog'[Len(errlog')].line = LineOf(source, current + 1)

\* C3: "Unterminated string." carries the line of the opening quote.
C3_UnterminatedAtOpeningLine == [][C3_UnterminatedAtOpeningLine_Step]_vars
----------------------------------------------------------------------------
(* Reference notions the parser claims are stated with. *)

\* An expression without the lines stored in its nodes.
RECURSIVE ShapeOf(_)
ShapeOf(e) ==
    CASE e.kind = "Literal" -> <<"lit", e.lit, e.val>>
      [] e.kind = "Variable" -> <<"var", e.name>>
      [] e.kind = "Unary" -> <<"unary", e.op, ShapeOf(e.expr)>>
      [] e.kind = "Binary" -> <<"binary", e.op, ShapeOf(e.left), ShapeOf(e.right)>>
      [] e.kind = "Logical" -> <<"logical", e.op, ShapeOf(e.left), ShapeOf(e.right)>>
      [] e.kind = "Grouping" -> <<"group", ShapeOf(e.expr)>>
      [] e.kind = "Assign" -> <<"assign", e.name, ShapeOf(e.rhs)>>

\* parse_program has returned.
ParseDone == p_result.status \in {"Ok", "Err"}

\* What Parser::error writes for a token: the word end for Eof, the lexeme
\* between single quotes otherwise.
WhereOf(token) ==
    IF token.token_type = "Eof" THEN <<"e", "n", "d">>
    ELSE <<"'">> \o token.lexeme \o <<"'">>

Names(diag, token) == diag.line = token.line /\ diag.where = WhereOf(token)

----------------------------------------------------------------------------
(* C4: a failed parse_program stops at the first parse error: exactly one  *)
(* diagnostic is emitted, it names the offending token (end for Eof, the   *)
(* quoted lexeme otherwise), no further token is consumed and no further   *)
(* statement is parsed afterwards, and the result is Err with no partial   *)
(* program.  The offending token is the one under the cursor when advance  *)
(* or consume fails, the one primary has just eaten for an unexpected      *)
(* token, and an eaten `=` for an invalid assignment target.               *)
C4_OneDiagnosticNamesToken ==
    p_result.status = "Err" =>
       /\ Len(p_diags) = 1
       /\ LET diag == p_diags[1]
          IN  CASE diag.msg = "Unexpected token" ->
                       p_current >= 1 /\ Names(diag, p_tokens[p_current])
                [] diag.msg = "Invalid assignment target" ->
                       \E i \in 1..p_current :
                          p_tokens[i].token_type = "Equal" /\ Names(diag, p_tokens[i])
                [] OTHER -> Names(diag, p_tokens[p_current + 1])
       /\ (p_diags[1].where = <<"e", "n", "d">>) =
              (p_current = Len(p_tokens) - 1
                 /\ p_diags[1].msg \notin {"Unexpected token", "Invalid assignment target"})

C4_ErrHasNoProgram ==
    p_result.status = "Err" =>
       /\ p_result = [status |-> "Err"]
       /\ ~parse_program(p_tokens).ok
       /\ parse_program(p_tokens).node = <<>>
       /\ parse_program(p_tokens).diags = p_diags

C4_NothingAfterError ==
    p_result.status = "Err" =>
       /\ p_current' = p_current
       /\ p_stmts' = p_stmts
       /\ p_diags' = p_diags
       /\ p_result' = p_result

\* C4: a failed parse_program stops at its first error, with one diagnostic
\* that names the offending token and an Err that holds no program.
C4_FirstParseErrorStops ==
    /\ []C4_OneDiagnosticNamesToken
    /\ []C4_ErrHasNoProgram
    /\ [][C4_NothingAfterError]_vars

\* `1 ; ) ; 2 ;` has failed at `)`: one statement was parsed before it, one
\* diagnostic was written, and the tokens after `)` are left unread.
C4_Witness ==
    /\ p_result.status = "Err"
    /\ TypesOf(p_tokens) = <<"Number", "Semicolon", "RightParen", "Semicolon",
                             "Number", "Semicolon", "Eof">>
    /\ Len(p_stmts) = 1
    /\ p_current = 3
    /\ Len(p_diags) = 1
    /\ p_diags[1].where = <<"'", ")", "'">>

----------------------------------------------------------------------------
(* C5: for every token sequence of operands separated by binary and        *)
(* logical operators the parsed tree follows the precedence order          *)
(* or < and < equality < comparison < term < factor < unary, and operators *)
(* of one level group to the left.  The reference tree of a chain splits   *)
(* it at the rightmost operator of the loosest level present.              *)

\* The precedence level of a binary or logical operator token, 0 for others.
LevelOf(tt) ==
    CASE tt = "Or" -> 1
      [] tt = "And" -> 2
      [] tt \in {"BangEqual", "EqualEqual"} -> 3
      [] tt \in {"Greater", "GreaterEqual", "Less", "LessEqual"} -> 4
      [] tt \in {"Minus", "Plus"} -> 5
      [] tt \in {"Slash", "Star"} -> 6
      [] OTHER -> 0

RefOpOf(tt) ==
    CASE tt = "Or" -> "Or" [] tt = "And" -> "And"
      [] tt = "BangEqual" -> "NotEqual" [] tt = "EqualEqual" -> "Equal"
      [] tt = "Greater" -> "Greater" [] tt = "GreaterEqual" -> "GreaterEqual"
      [] tt = "Less" -> "Less" [] tt = "LessEqual" -> "LessEqual"
      [] tt = "Minus" -> "Sub" [] tt = "Plus" -> "Add"
      [] tt = "Slash" -> "Div" [] tt = "Star" -> "Mul"

\* An operand of a chain: prefix operators (! and -) before a number or a
\* name.  OperandEnd is the index of its last token, 0 if there is none.
RECURSIVE OperandEnd(_, _)
OperandEnd(toks, i) ==
    IF i > Len(toks) THEN 0
    ELSE IF toks[i].token_type \in {"Bang", "Minus"} THEN OperandEnd(toks, i + 1)
    ELSE IF toks[i].token_type \in {"Number", "Identifier"} THEN i
    ELSE 0

\* The indices of the binary operators of the chain that starts at i, or
\* <<0>> if the tokens from i are not a chain followed by `;` and Eof.
RECURSIVE ChainOpsAt(_, _)
ChainOpsAt(toks, i) ==
    LET e == OperandEnd(toks, i)
    IN  IF e = 0 \/ e + 1 > Len(toks) THEN <<0>>
        ELSE IF toks[e + 1].token_type = "Semicolon"
        THEN IF e + 2 = Len(toks) THEN <<>> ELSE <<0>>
        ELSE IF LevelOf(toks[e + 1].token_type) = 0 THEN <<0>>
        ELSE LET rest == ChainOpsAt(toks, e + 2)
             IN  IF rest = <<0>> THEN <<0>> ELSE <<e + 1>> \o rest

IsChain(toks) == ChainOpsAt(toks, 1) # <<0>>

RECURSIVE RefOperand(_, _)
RefOperand(toks, i) ==
    CASE toks[i].token_type = "Bang" -> <<"unary", "Not", RefOperand(toks, i + 1)>>
      [] toks[i].token_type = "Minus" -> <<"unary", "Negative", RefOperand(toks, i + 1)>>
      [] toks[i].token_type = "Number" -> <<"lit", "Number", parse_f64(toks[i].lexeme)>>
      [] toks[i].token_type = "Identifier" -> <<"var", toks[i].lexeme>>

\* The reference tree of the tokens lo..hi, ops being the indices of the
\* binary operators among them.
RECURSIVE RefTree(_, _, _, _)
RefTree(toks, ops, lo, hi) ==
    IF ops = {} THEN RefOperand(toks, lo)
    ELSE LET loosest == CHOOSE l \in 1..6 :
                           /\ \E k \in ops : LevelOf(toks[k].token_type) = l
                           /\ \A k \in ops : LevelOf(toks[k].token_type) >= l
             split   == CHOOSE k \in ops :
                           /\ LevelOf(toks[k].token_type) = loosest
                           /\ \A j \in ops : LevelOf(toks[j].token_type) = loosest => j <= k
         IN  <<IF loosest <= 2 THEN "logical" ELSE "binary",
               RefOpOf(toks[split].token_type),
               RefTree(toks, {k \in ops : k < split}, lo, split - 1),
               RefTree(toks, {k \in ops : k > split}, split + 1, hi)>>

RefChain(toks) ==
    LET ops == ChainOpsAt(toks, 1)
    IN  RefTree(toks, {ops[i] : i \in 1..Len(ops)}, 1, Len(toks) - 2)

\* C5: a chain of operands and operators parses to its reference tree.
C5_PrecedenceAndLeftAssociativity ==
    (ParseDone /\ IsChain(p_tokens)) =>
       /\ p_result.status = "Ok"
       /\ Len(p_result.program) = 1
       /\ p_result.program[1].kind = "Expr"
       /\ ShapeOf(p_result.program[1].expr) = RefChain(p_tokens)

\* `1 + 2 * 3 ;` has been parsed.
C5_Witness ==
    /\ p_result.status = "Ok"
    /\ TypesOf(p_tokens) = <<"Number", "Plus", "Number", "Star", "Number", "Semicolon", "Eof">>
    /\ DisplayExpr(p_result.program[1].expr) = "(+ 1.0 (* 2.0 3.0))"

----------------------------------------------------------------------------
(* C6: assignment is right-associative, and a left side of `=` that is not *)
(* a bare variable reference makes parsing fail with the diagnostic        *)
(* "Invalid assignment target" reported at that `=`.  The claim is stated  *)
(* on assignment chains: targets, each followed by `=`, then a value, `;`  *)
(* and Eof.                                                                *)

\* The indices of the `=` tokens.
EqualsOf(toks) == {i \in 1..Len(toks) : toks[i].token_type = "Equal"}

\* The token types between the `=` before index i (or the start) and i.
SegmentBefore(toks, i) ==
    LET before == {j \in EqualsOf(toks) : j < i}
        start  == IF before = {} THEN 1
                  ELSE 1 + CHOOSE j \in before : \A k \in before : k <= j
    IN  SubSeq(TypesOf(toks), start, i - 1)

VariableTarget == <<"Identifier">>

OtherTargets ==
    {<<"Number">>, <<"LeftParen", "Identifier", "RightParen">>,
     <<"Identifier", "Plus", "Identifier">>}

\* The token types of the value: after the last `=`, before `;` and Eof.
ValueOf(toks) == SegmentBefore(toks, Len(toks) - 1)

GoodValues == {<<"Number">>, <<"Identifier">>}

BadValues == {<<>>, <<"RightParen">>}

IsAssignChain(toks) ==
    /\ Len(toks) >= 3
    /\ toks[Len(toks) - 1].token_type = "Semicolon"
    /\ EqualsOf(toks) # {}
    /\ \A i \in EqualsOf(toks) : SegmentBefore(toks, i) \in {VariableTarget} \cup OtherTargets
    /\ ValueOf(toks) \in GoodValues \cup BadValues

\* The `=` tokens whose left side is not a bare variable reference.
BadEquals(toks) == {i \in EqualsOf(toks) : SegmentBefore(toks, i) \in OtherTargets}

\* The right-hand side of the `=` at i is a well-formed assignment or value.
RightSideParses(toks, i) ==
    /\ ValueOf(toks) \in GoodValues
    /\ \A j \in BadEquals(toks) : j <= i

InvalidTargetAt(toks, i) ==
    [line |-> toks[i].line, where |-> <<"'", "=", "'">>, msg |-> "Invalid assignment target"]

\* The right-nested tree of a chain of variable targets from index i.
RECURSIVE RefAssign(_, _)
RefAssign(toks, i) ==
    IF toks[i + 1].token_type = "Equal"
    THEN <<"assign", toks[i].lexeme, RefAssign(toks, i + 2)>>
    ELSE RefOperand(toks, i)

\* C6 as stated: every `=` after a left side that is not a bare variable
\* makes parsing fail with "Invalid assignment target" at that `=`.
C6_InvalidTargetReportedAtEquals ==
    (ParseDone /\ IsAssignChain(p_tokens)) =>
       \A i \in BadEquals(p_tokens) :
          p_result.status = "Err" /\ p_diags = <<InvalidTargetAt(p_tokens, i)>>

\* C6 amended: the target is looked at once the right-hand side of its
\* `=` has been parsed, so the report at the `=` needs that right-hand side
\* to parse; otherwise the diagnostic of the right-hand side is the one
\* reported.
C6_InvalidTargetAfterRightSide ==
    (ParseDone /\ IsAssignChain(p_tokens)) =>
       /\ \A i \in BadEquals(p_tokens) :
             /\ p_result.status = "Err"
             /\ RightSideParses(p_tokens, i) => p_diags = <<InvalidTargetAt(p_tokens, i)>>
       /\ ValueOf(p_tokens) \in BadValues =>
             /\ p_result.status = "Err"
             /\ Len(p_diags) = 1
             /\ p_diags[1].msg = "Unexpected token"
             /\ \E i \in EqualsOf(p_tokens) :
                   /\ \A j \in EqualsOf(p_tokens) : j <= i
                   /\ Names(p_diags[1], p_tokens[i + 1])
       /\ (BadEquals(p_tokens) = {} /\ ValueOf(p_tokens) \in GoodValues) =>
             /\ p_result.status = "Ok"
             /\ Len(p_result.program) = 1
             /\ p_result.program[1].kind = "Expr"
             /\ ShapeOf(p_result.program[1].expr) = RefAssign(p_tokens, 1)

\* `1 = a = 2 ;`, one token per line, has failed: the right-hand side of
\* the first `=` parses, and the one diagnostic is at that `=`, on line 2.
C6_Witness ==
    /\ p_result.status = "Err"
    /\ TypesOf(p_tokens) = <<"Number", "Equal", "Identifier", "Equal", "Number",
                             "Semicolon", "Eof">>
    /\ p_tokens[2].line = 2
    /\ p_diags = <<InvalidTargetAt(p_tokens, 2)>>
----------------------------------------------------------------------------
(* Reference notions the evaluator claims are stated with. *)

\* The step is the return of interpret_stmt for a Block.
BlockReturns ==
    /\ frames # <<>>
    /\ Top.k = "stmt"
    /\ Top.stmt.kind = "Block"
    /\ frames' = Below

\* The step is the Ok return of interpret_stmt for a Block.
BlockReturnsOk == BlockReturns /\ r_status = "run"

\* A RuntimeError has been raised.
Failed == r_status \in {"unwind", "err"}

----------------------------------------------------------------------------
(* C7: the first RuntimeError aborts the program: once it is raised no     *)
(* statement is called, nothing more is printed and the environment no     *)
(* longer changes; the callers return one after the other and              *)
(* interpret_program returns that error.                                   *)
C7_NothingRunsAfterError ==
    Failed =>
       /\ output' = output
       /\ scopes' = scopes
       /\ r_error' = r_error
       /\ r_status' \in {"unwind", "err"}
       /\ frames' = frames \/ frames' = Below

\* The step that raises the error prints nothing.
C7_RaisePrintsNothing ==
    (r_status = "run" /\ r_status' = "unwind") => (output' = output /\ Len(r_error') = 1)

C7_Results ==
    /\ r_status = "err" => (frames = <<>> /\ Len(r_error) = 1)
    /\ r_status \in {"run", "ok"} => r_error = <<>>

\* C7: after the first RuntimeError nothing runs, prints or changes.
C7_FirstErrorAborts ==
    /\ [][C7_NothingRunsAfterError]_vars
    /\ [][C7_RaisePrintsNothing]_vars
    /\ []C7_Results

\* `var x = 1; { print x; { var x = 2; print y; } print x; } print x;` has
\* failed at `print y`: the print before it is the whole output.
C7_Witness ==
    /\ r_status = "err"
    /\ Len(program) = 3
    /\ program[1].kind = "Var"
    /\ program[2].kind = "Block"
    /\ Len(program[2].stmts) = 3
    /\ program[3].kind = "Print"
    /\ output = <<"1">>

----------------------------------------------------------------------------
(* C8: when interpret_stmt returns for a Block, with Ok or with a          *)
(* RuntimeError raised inside it, the scope stack has the depth it had     *)
(* when the block was entered.                                             *)
C8_BlockReturnRestoresDepth_Step ==
    BlockReturns => Len(scopes') = Len(Top.scopes0)

\* C8: a Block returns, Ok or Err, with the scope depth of its entry.
C8_BlockReturnRestoresDepth == [][C8_BlockReturnRestoresDepth_Step]_vars

----------------------------------------------------------------------------
(* C9: during a run the Environment holds at least one scope: the scope    *)
(* that Environment::default creates stays at the bottom of the stack, a   *)
(* pop removes the last scope of at least two, and no name leaves the      *)
(* bottom scope.                                                           *)
C9_AtLeastOneScope == r_status # "idle" => Len(scopes) >= 1

C9_GlobalNeverPopped ==
    r_status # "idle" =>
       /\ Len(scopes') >= 1
       /\ DOMAIN scopes[1] \subseteq DOMAIN scopes'[1]
       /\ Len(scopes') < Len(scopes) =>
             (Len(scopes) >= 2 /\ scopes' = SubSeq(scopes, 1, Len(scopes) - 1))

\* C9: the Environment always holds the global scope, which is never popped.
C9_GlobalScopeStays == []C9_AtLeastOneScope /\ [][C9_GlobalNeverPopped]_vars

\* A run has ended after a block was left: only the global scope remains,
\* and it still holds a variable.
C9_Witness ==
    /\ lastret.kind = "Block"
    /\ lastret.ok
    /\ Len(scopes) = 1
    /\ scopes[1] # EmptyScope
    /\ r_status = "ok"

----------------------------------------------------------------------------
(* C10: a declaration made inside a block does not leak.  As stated: after *)
(* a block completes, a lookup of a name declared in the block gives what  *)
(* it gave before the block.                                               *)
C10_LookupAsBeforeBlock_Step ==
    BlockReturnsOk =>
       \A name \in DOMAIN scopes[Len(scopes)] :
          env_get(scopes', name) = env_get(Top.scopes0, name)

\* C10 as stated: after a block, a name declared in it looks up as before
\* the block.
C10_LookupAsBeforeBlock == [][C10_LookupAsBeforeBlock_Step]_vars

\* The amended claim: after a block completes, its scope is gone, and a
\* lookup of a name declared in the block gives what it gave just before
\* the first declaration of the name in the block.
C10_LookupAsBeforeDeclaration_Step ==
    BlockReturnsOk =>
       /\ scopes' = SubSeq(scopes, 1, Len(scopes) - 1)
       /\ Len(scopes') = Len(Top.scopes0)
       /\ DOMAIN shadow[Len(shadow)] = DOMAIN scopes[Len(scopes)]
       /\ \A name \in DOMAIN scopes[Len(scopes)] :
             env_get(scopes', name) = shadow[Len(shadow)][name]

\* C10 amended: after a block, a name declared in it looks up as just
\* before its first declaration in the block.
C10_LookupAsBeforeDeclaration == [][C10_LookupAsBeforeDeclaration_Step]_vars

\* `var x = 1; { var x = 2; } print x;` has printed 1.
C10_Witness ==
    /\ r_status = "ok"
    /\ Len(program) = 3
    /\ program[1].kind = "Var"
    /\ program[2].kind = "Block"
    /\ Len(program[2].stmts) = 1
    /\ program[2].stmts[1].kind = "Var"
    /\ program[3].kind = "Print"
    /\ output = <<"1">>
----------------------------------------------------------------------------
(* Reference notions the environment and operator claims are stated with. *)

\* Some active scope binds the name.
Bound(env, name) == \E i \in 1..Len(env) : name \in DOMAIN env[i]

\* The innermost scope that binds the name.
Innermost(env, name) ==
    CHOOSE i \in 1..Len(env) :
        /\ name \in DOMAIN env[i]
        /\ \A j \in (i + 1)..Len(env) : name \notin DOMAIN env[j]

\* Only Nil and Bool(false) are falsy.
Truthy(val) == val # NilV /\ val # BoolV(FALSE)

\* The step is interpret_stmt for `e;` or `print e;` with e of the kind.
Evaluates(kind) ==
    /\ r_status = "run"
    /\ frames # <<>>
    /\ Top.k = "stmt"
    /\ Top.stmt.kind \in {"Expr", "Print"}
    /\ Top.stmt.expr.kind = kind

\* The step ends the statement with the value val: Ok, and printed by print.
Yields(val) ==
    /\ r_status' = "run"
    /\ r_error' = <<>>
    /\ frames' = Below
    /\ output' = IF Top.stmt.kind = "Print" THEN Append(output, DisplayValue(val))
                 ELSE output

\* The step ends the statement with the RuntimeError: nothing is printed.
Fails(ln, msg) ==
    /\ r_status' = "unwind"
    /\ r_error' = <<[line |-> ln, msg |-> msg]>>
    /\ output' = output

----------------------------------------------------------------------------
(* C11: an assignment to a name bound in some active scope overwrites the  *)
(* binding in the innermost scope that holds the name and yields the       *)
(* assigned value; no scope gets a new name, and every other binding, the  *)
(* bindings of the same name in outer scopes included, stays as it was     *)
(* after the right-hand side was evaluated.                                *)
C11_AssignOverwritesInnermost_Step ==
    Evaluates("Assign") =>
       LET e == Top.stmt.expr
           r == evaluate(e.rhs, scopes)
       IN  (r.ok /\ Bound(r.scopes, e.name)) =>
              LET k == Innermost(r.scopes, e.name)
              IN  /\ Yields(r.val)
                  /\ Len(scopes') = Len(r.scopes)
                  /\ \A i \in 1..Len(r.scopes) : DOMAIN scopes'[i] = DOMAIN r.scopes[i]
                  /\ scopes'[k][e.name] = r.val
                  /\ \A i \in 1..Len(r.scopes) : \A n \in DOMAIN r.scopes[i] :
                        (i # k \/ n # e.name) => scopes'[i][n] = r.scopes[i][n]

\* C11: assignment overwrites the innermost binding of the name, yields the
\* value, and changes nothing else.
C11_AssignOverwritesInnermost == [][C11_AssignOverwritesInnermost_Step]_vars

\* `var x = 1; { var x = 2; var y = ..; { var y = ..; x = 9; } }` after the
\* assignment: x is 9 in the second scope and still 1 in the global scope.
C11_Witness ==
    /\ lastret.kind = "Expr"
    /\ lastret.ok
    /\ Len(scopes) = 3
    /\ DOMAIN scopes[1] = {<<"x">>}
    /\ DOMAIN scopes[2] = EnvNames
    /\ DOMAIN scopes[3] = {<<"y">>}
    /\ scopes[1][<<"x">>] = NumberV(<<1, 1>>)
    /\ scopes[2][<<"x">>] = NumberV(<<9, 1>>)
    /\ scopes[2][<<"y">>] # scopes[3][<<"y">>]

----------------------------------------------------------------------------
(* C12: an assignment to a name that no active scope binds fails with the  *)
(* RuntimeError "Variable '<name>' not declared before assignment" and     *)
(* leaves the environment as the right-hand side left it; a name enters a  *)
(* scope only by a var statement, which puts it into the innermost scope.  *)
C12_UndeclaredAssignFails_Step ==
    Evaluates("Assign") =>
       LET e == Top.stmt.expr
           r == evaluate(e.rhs, scopes)
       IN  (r.ok /\ ~Bound(r.scopes, e.name)) =>
              /\ Fails(e.line, "Variable '" \o Chars(e.name)
                                   \o "' not declared before assignment")
              /\ scopes' = r.scopes

C12_NamesEnterByVar_Step ==
    r_status # "idle" =>
       \A i \in 1..Len(scopes') : \A n \in DOMAIN scopes'[i] :
          (i > Len(scopes) \/ n \notin DOMAIN scopes[i]) =>
             /\ Running("Var")
             /\ n = Top.stmt.name
             /\ i = Len(scopes)
             /\ Len(scopes') = Len(scopes)

\* C12: assignment to an unbound name is a RuntimeError and declares nothing.
C12_UndeclaredAssignFails ==
    /\ [][C12_UndeclaredAssignFails_Step]_vars
    /\ [][C12_NamesEnterByVar_Step]_vars

\* `var y = ..; { var y = ..; x = 9; }` has failed: no scope holds x.
C12_Witness ==
    /\ r_status = "err"
    /\ lastret.kind = "Block"
    /\ Len(scopes) = 2
    /\ ~Bound(scopes, <<"x">>)
    /\ Bound(scopes, <<"y">>)
    /\ r_error[1].msg = "Variable 'x' not declared before assignment"

----------------------------------------------------------------------------
(* C13: a var statement binds the name in the innermost active scope only, *)
(* to the value of the initializer or to Nil without one; a binding of the *)
(* name in that scope is replaced without error, and the outer scopes and  *)
(* the other names stay as the initializer left them.  The initializer is  *)
(* evaluated in the environment before the statement: one that reads a     *)
(* variable gets the binding in force before the statement, also for the   *)
(* declared name itself, and fails when there is none.                     *)
C13_VarBindsInnermost_Step ==
    Running("Var") =>
       LET s == Top.stmt
           n == Len(scopes)
           r == IF s.initializer = <<>> THEN [ok |-> TRUE, val |-> NilV, scopes |-> scopes]
                ELSE evaluate(s.initializer[1], scopes)
       IN  r.ok =>
              /\ r_status' = "run"
              /\ r_error' = <<>>
              /\ Len(scopes') = n
              /\ \A i \in 1..(n - 1) : scopes'[i] = r.scopes[i]
              /\ DOMAIN scopes'[n] = DOMAIN r.scopes[n] \cup {s.name}
              /\ scopes'[n][s.name] = r.val
              /\ \A m \in DOMAIN r.scopes[n] \ {s.name} : scopes'[n][m] = r.scopes[n][m]

C13_InitializerSeesPrevious_Step ==
    (Running("Var") /\ Top.stmt.initializer # <<>>
                    /\ Top.stmt.initializer[1].kind = "Variable") =>
       LET s == Top.stmt
           v == s.initializer[1]
       IN  IF Bound(scopes, v.name)
           THEN /\ r_status' = "run"
                /\ scopes'[Len(scopes)][s.name] = scopes[Innermost(scopes, v.name)][v.name]
           ELSE /\ Fails(v.line, "Undefined variable '" \o Chars(v.name) \o "'.")
                /\ scopes' = scopes

\* C13: var binds in the innermost scope, replacing silently, after the
\* initializer was evaluated with the previous bindings.
C13_VarBindsInnermost ==
    /\ [][C13_VarBindsInnermost_Step]_vars
    /\ [][C13_InitializerSeesPrevious_Step]_vars

\* `var x = 1; { var x = 2; { var x = 3; var x = x; } }` after the last
\* var: the innermost x, replaced, has the value it had, the outer ones too.
C13_Witness ==
    /\ lastret.kind = "Var"
    /\ lastret.ok
    /\ Len(scopes) = 3
    /\ Len(frames) = 3
    /\ Top.stmt.kind = "Block"
    /\ Top.pc = 3
    /\ Top.stmt.stmts[2].initializer # <<>>
    /\ Top.stmt.stmts[2].initializer[1].kind = "Variable"
    /\ Top.stmt.stmts[2].name = <<"x">>
    /\ scopes[1] = ScopeInsert(EmptyScope, <<"x">>, NumberV(<<1, 1>>))
    /\ scopes[2] = ScopeInsert(EmptyScope, <<"x">>, NumberV(<<2, 1>>))
    /\ scopes[3] = ScopeInsert(EmptyScope, <<"x">>, NumberV(<<3, 1>>))

----------------------------------------------------------------------------
(* C14: the logical operators short-circuit.  With the left operand        *)
(* evaluated to a value, the right operand is evaluated exactly when that  *)
(* value is truthy for `and`, falsy for `or`.  When it is not evaluated    *)
(* the statement has the effects of the left operand alone and yields the  *)
(* left value as it is; when it is evaluated the statement has the         *)
(* effects, the value or the RuntimeError of the right operand evaluated   *)
(* after the left one, the value as it is.                                 *)
C14_ShortCircuit_Step ==
    Evaluates("Logical") =>
       LET e == Top.stmt.expr
           l == evaluate(e.left, scopes)
       IN  l.ok =>
              IF (e.op = "And") = Truthy(l.val)
              THEN LET r == evaluate(e.right, l.scopes)
                   IN  /\ scopes' = r.scopes
                       /\ IF r.ok THEN Yields(r.val) ELSE Fails(r.err.line, r.err.msg)
              ELSE /\ scopes' = l.scopes
                   /\ Yields(l.val)

\* The operands of the statements under test: the left one a literal, the
\* right one the assignment `(x = 9)`, which changes x or fails.
C14_Operands ==
    Evaluates("Logical") =>
       LET e == Top.stmt.expr
       IN  /\ e.left.kind = "Literal"
           /\ e.right = GroupingE(2, AssignE(2, <<"x">>, LiteralE(2, "Number", <<9, 1>>)))
           /\ evaluate(e.right, scopes).ok = Bound(scopes, <<"x">>)
           /\ (evaluate(e.right, scopes).scopes # scopes) = Bound(scopes, <<"x">>)

\* C14: `and` and `or` evaluate the right operand only when the left value
\* does not decide, and yield an operand's value uncoerced.
C14_ShortCircuit == [][C14_ShortCircuit_Step]_vars /\ []C14_Operands

\* `var x = 1; print 0 and (x = 9);` has printed 9 and x is 9: the number 0
\* is truthy, the right operand was evaluated and its value is the result.
C14_Witness ==
    /\ r_status = "ok"
    /\ Len(program) = 2
    /\ program[2].kind = "Print"
    /\ program[2].expr.kind = "Logical"
    /\ program[2].expr.op = "And"
    /\ program[2].expr.left = LiteralE(2, "Number", <<0, 1>>)
    /\ scopes = <<ScopeInsert(EmptyScope, <<"x">>, NumberV(<<9, 1>>))>>
    /\ output = <<"9">>

----------------------------------------------------------------------------
(* C15: an if statement evaluates its condition once and then runs exactly *)
(* one branch: the then-branch when the value is truthy, the else-branch   *)
(* when it is falsy and there is one, nothing when it is falsy and there   *)
(* is none; when the branch has returned the if returns.  Nil and          *)
(* Bool(false) are falsy, every other value is truthy.                     *)
C15_IfChoosesBranch_Step ==
    (Running("IfStmt") /\ Top.pc = 0) =>
       LET s == Top.stmt
           r == evaluate(s.condition, scopes)
       IN  r.ok =>
              /\ scopes' = r.scopes
              /\ r_status' = "run"
              /\ output' = output
              /\ IF Truthy(r.val) \/ s.else_branch # <<>>
                 THEN /\ Len(frames') = Len(frames) + 1
                      /\ frames'[Len(frames')].k = "stmt"
                      /\ frames'[Len(frames')].stmt =
                            IF Truthy(r.val) THEN s.then_branch ELSE s.else_branch[1]
                      /\ frames'[Len(frames)].pc = 1
                 ELSE frames' = Below

C15_IfReturnsAfterBranch_Step ==
    (Running("IfStmt") /\ Top.pc = 1) =>
       /\ frames' = Below
       /\ scopes' = scopes
       /\ output' = output
       /\ r_status' = "run"

\* What `if (c) print 1;` and `if (c) print 1; else print 2;` have printed
\* at the end, for the conditions nil, false, true, 0 and "".
C15_Outputs ==
    \A c \in TruthTexts, e \in ElseTexts :
       (r_status = "ok" /\ program = <<TestNodes[IfText(c, e)]>>) =>
          output = IF c \in {<<kNil>>, <<kFalse>>}
                   THEN (IF e = <<>> THEN <<>> ELSE <<"2">>)
                   ELSE <<"1">>

\* C15: if runs exactly the branch its condition's truthiness selects.
C15_IfChoosesBranch ==
    /\ [][C15_IfChoosesBranch_Step]_vars
    /\ [][C15_IfReturnsAfterBranch_Step]_vars
    /\ []C15_Outputs

\* `if (0) print 1; else print 2;` has printed 1: the number 0 is truthy.
C15_Witness ==
    /\ r_status = "ok"
    /\ program = <<TestNodes[IfText(<<<<"0">>>>, <<kElse, kPrint, <<"2">>, <<";">>>>)]>>
    /\ output = <<"1">>

----------------------------------------------------------------------------
(* C16: `+` on two operand values.  Two Numbers give their sum and two     *)
(* Strings the left text followed by the right text; every other pair      *)
(* gives a RuntimeError on the line of the node and no value: "Expecting a *)
(* number" for a Number on the left, "Expecting a string" for a String on  *)
(* the left, "Expecting a number or a string" for any other left operand.  *)
(* Checked on `print l + r;` for the literals 1, "a", nil, true on the     *)
(* left and 2, "b", nil, false on the right.                               *)
C16_AddOnValues_Step ==
    (Evaluates("Binary") /\ Top.stmt.expr.op = "Add"
        /\ Top.stmt.expr.left.kind = "Literal" /\ Top.stmt.expr.right.kind = "Literal") =>
       LET e == Top.stmt.expr
           l == LiteralValue(e.left)
           r == LiteralValue(e.right)
       IN  /\ scopes' = scopes
           /\ CASE l.t = "Number" /\ r.t = "Number" ->
                      Yields(NumberV(<<l.v[1] + r.v[1], 1>>))
                [] l.t = "String" /\ r.t = "String" ->
                      Yields(StringV(l.v \o r.v))
                [] l.t = "Number" /\ r.t # "Number" ->
                      Fails(e.line, "Expecting a number")
                [] l.t = "String" /\ r.t # "String" ->
                      Fails(e.line, "Expecting a string")
                [] l.t \notin {"Number", "String"} ->
                      Fails(e.line, "Expecting a number or a string")

\* The pairs of operand kinds of the statements under test.
C16_Pairs ==
    {<<TestNodes[t].expr.left.lit, TestNodes[t].expr.right.lit>> : t \in AddTests}
        = {"Number", "String", "Nil", "True"} \X {"Number", "String", "Nil", "False"}

\* C16: `+` adds two Numbers, concatenates two Strings, and fails on every
\* other pair with the message the left operand selects.
C16_AddOnValues == [][C16_AddOnValues_Step]_vars /\ [](r_status # "idle" => C16_Pairs)

\* `print "a" + 2;` has failed with "Expecting a string", nothing printed.
C16_Witness ==
    /\ r_status = "err"
    /\ program = <<PrintS(BinaryE(2, LiteralE(2, "String", <<"a">>), "Add",
                                  LiteralE(2, "Number", <<2, 1>>)))>>
    /\ r_error = <<RuntimeError(2, "Expecting a string")>>
    /\ output = <<>>

----------------------------------------------------------------------------
(* C17: reading a variable gives the value bound in the innermost scope    *)
(* that holds the name; when no active scope holds it the result is the    *)
(* RuntimeError "Undefined variable '<name>'." with the line of the        *)
(* variable's token.  The token's line is counted in the text: the         *)
(* statement begins on line 2 and every newline before the name adds one.  *)
WordLine(text, k, first) == first + Cardinality({j \in 1..(k - 1) : text[j] = nl})

NameLine(text) == WordLine(text, CHOOSE k \in 1..Len(text) : text[k] \in EnvNames, 2)

C17_ReadInnermost_Step ==
    Evaluates("Variable") =>
       LET e == Top.stmt.expr
       IN  /\ scopes' = scopes
           /\ IF Bound(scopes, e.name)
              THEN Yields(scopes[Innermost(scopes, e.name)][e.name])
              ELSE \E t \in ReadTests :
                      /\ Top.stmt = TestNodes[t]
                      /\ Fails(NameLine(t), "Undefined variable '" \o Chars(e.name) \o "'.")

\* C17: a variable reads as its innermost binding, or fails as undefined on
\* the line of its token.
C17_ReadInnermost == [][C17_ReadInnermost_Step]_vars

\* The statement `print` / `x;` on lines 2 and 3, inside a block with y in
\* scope and no x, has failed on line 3.
C17_Witness ==
    /\ r_status = "err"
    /\ Len(program) = 2
    /\ program[1].kind = "Var"
    /\ program[1].name = <<"y">>
    /\ program[2].kind = "Block"
    /\ r_error = <<RuntimeError(3, "Undefined variable 'x'.")>>
    /\ output = <<>>

----------------------------------------------------------------------------
(* Reference notions the line claims are stated with: where in the token   *)
(* sequence the nodes of a parsed program stand.  A statement or an        *)
(* expression covers a run of consecutive tokens; the tokens of the        *)
(* Program's statements follow each other from token 1.                    *)

\* The number of tokens of an expression.
RECURSIVE Span(_)
Span(e) ==
    CASE e.kind \in {"Literal", "Variable"} -> 1
      [] e.kind = "Unary" -> 1 + Span(e.expr)
      [] e.kind = "Grouping" -> 2 + Span(e.expr)
      [] e.kind \in {"Binary", "Logical"} -> Span(e.left) + 1 + Span(e.right)
      [] e.kind = "Assign" -> 2 + Span(e.rhs)

\* The number of tokens of a statement, and of a sequence of statements.
RECURSIVE StmtSpan(_)
RECURSIVE StmtsSpan(_)
StmtSpan(s) ==
    CASE s.kind = "Expr" -> Span(s.expr) + 1
      [] s.kind = "Print" -> Span(s.expr) + 2
      [] s.kind = "Var" -> IF s.initializer = <<>> THEN 3 ELSE 4 + Span(s.initializer[1])
      [] s.kind = "Block" -> 2 + StmtsSpan(s.stmts)
      [] s.kind = "IfStmt" ->
            3 + Span(s.condition) + StmtSpan(s.then_branch)
              + (IF s.else_branch = <<>> THEN 0 ELSE 1 + StmtSpan(s.else_branch[1]))

StmtsSpan(ss) == IF ss = <<>> THEN 0 ELSE StmtSpan(ss[1]) + StmtsSpan(Tail(ss))

\* A node of kind k with the recorded line ln, whose leftmost token is
\* token `first` and whose own token (the operator, the `=`, the `(`, the
\* literal or the name) is token `own`.
NodeAt(e, first, own) == [kind |-> e.kind, line |-> e.line, first |-> first, own |-> own]

\* The nodes of an expression whose leftmost token is token i.
RECURSIVE ExprNodes(_, _)
ExprNodes(e, i) ==
    CASE e.kind \in {"Literal", "Variable"} -> {NodeAt(e, i, i)}
      [] e.kind = "Unary" -> {NodeAt(e, i, i)} \cup ExprNodes(e.expr, i + 1)
      [] e.kind = "Grouping" -> {NodeAt(e, i, i)} \cup ExprNodes(e.expr, i + 1)
      [] e.kind \in {"Binary", "Logical"} ->
            {NodeAt(e, i, i + Span(e.left))}
                \cup ExprNodes(e.left, i) \cup ExprNodes(e.right, i + Span(e.left) + 1)
      [] e.kind = "Assign" -> {NodeAt(e, i, i + 1)} \cup ExprNodes(e.rhs, i + 2)

\* The expression nodes of a statement, and of a sequence of statements,
\* whose leftmost token is token i.
RECURSIVE StmtExprNodes(_, _)
RECURSIVE StmtsExprNodes(_, _)
StmtExprNodes(s, i) ==
    CASE s.kind = "Expr" -> ExprNodes(s.expr, i)
      [] s.kind = "Print" -> ExprNodes(s.expr, i + 1)
      [] s.kind = "Var" ->
            IF s.initializer = <<>> THEN {} ELSE ExprNodes(s.initializer[1], i + 3)
      [] s.kind = "Block" -> StmtsExprNodes(s.stmts, i + 1)
      [] s.kind = "IfStmt" ->
            ExprNodes(s.condition, i + 2)
                \cup StmtExprNodes(s.then_branch, i + 3 + Span(s.condition))
                \cup (IF s.else_branch = <<>> THEN {}
                      ELSE StmtExprNodes(s.else_branch[1],
                               i + 4 + Span(s.condition) + StmtSpan(s.then_branch)))

StmtsExprNodes(ss, i) ==
    IF ss = <<>> THEN {}
    ELSE StmtExprNodes(ss[1], i) \cup StmtsExprNodes(Tail(ss), i + StmtSpan(ss[1]))

\* The expression nodes of the statements parsed so far.
ParsedNodes == StmtsExprNodes(p_stmts, 1)

Operators == {"Binary", "Logical", "Unary"}

----------------------------------------------------------------------------
(* C18: every Binary, Logical and Unary node records the line of its       *)
(* operator token, the line a RuntimeError of the operator then carries,   *)
(* whatever the lines of the operands and of the tokens after them.        *)
\* C18: an operator node records the line of its operator token.
C18_OperatorNodeHasOperatorLine ==
    \A n \in ParsedNodes : n.kind \in Operators => n.line = p_tokens[n.own].line

----------------------------------------------------------------------------
(* C20: every expression node the parser produces carries the line of its  *)
(* leftmost token: a Binary or Logical node the line of the first token of *)
(* its left operand, a Unary node the line of its operator, an Assign node *)
(* the line of the target identifier, a Grouping node the line of `(`, a   *)
(* Literal or Variable node the line of its token.                         *)
\* C20: an expression node records the line of its leftmost token.
C20_NodeHasLeftmostLine ==
    \A n \in ParsedNodes : n.line = p_tokens[n.first].line

----------------------------------------------------------------------------
(* C19: in tokenize mode a line is printed for every token the scan gave,  *)
(* in their order, the line of the Eof token last, whether or not the scan *)
(* reported lexical errors; the exit code is 65 when the scan reported at  *)
(* least one lexical error and 0 when it reported none.                    *)
C19_LinePerToken ==
    cpc = "exit" =>
       /\ Len(stdout) = Len(c_tokens)
       /\ \A i \in 1..Len(c_tokens) : stdout[i] = TokenLine(c_tokens[i])
       /\ stdout[Len(stdout)] = "EOF  null"
       /\ \A i \in 1..(Len(stdout) - 1) : stdout[i] # "EOF  null"

C19_ExitCode ==
    /\ cpc = "exit" => exit_code = (IF c_stderr # <<>> THEN <<65>> ELSE <<0>>)
    /\ cpc \in {"tokenize", "print"} => exit_code = <<>>

\* The lines are printed one after the other, the errors of the scan all
\* reported before the first of them.
C19_PrintsInOrder_Step ==
    cpc = "print" =>
       /\ c_stderr' = c_stderr
       /\ c_tokens' = c_tokens
       /\ stdout' = stdout \/ (Len(stdout') = Len(stdout) + 1
                               /\ SubSeq(stdout', 1, Len(stdout)) = stdout)

\* C19: tokenize mode prints every token and Eof, and exits with 65 exactly
\* when the scan reported an error.
C19_TokenizeMode ==
    /\ []C19_LinePerToken
    /\ []C19_ExitCode
    /\ [][C19_PrintsInOrder_Step]_vars

\* The file `=@1` has been scanned: `@` was reported, the tokens `=` and
\* `1` and Eof were printed, and the exit code is 65.
C19_Witness ==
    /\ cpc = "exit"
    /\ file_contents = <<"=", "@", "1">>
    /\ Len(c_stderr) = 1
    /\ stdout = <<"EQUAL = null", "NUMBER 1 1.0", "EOF  null">>
    /\ exit_code = <<65>>

----------------------------------------------------------------------------
(* C21: the line a token records is the line of its first character, 1     *)
(* plus the number of newlines before that character in the source, also   *)
(* for a string literal that spans several lines; the Eof token records    *)
(* the line of the end of input.  A scan_token call that emits a token     *)
(* starts at the token's first character.                                  *)
C21_TokenLineIsFirstCharLine_Step ==
    /\ (spc = "scan" /\ spc' = "scan" /\ Len(tokens') = Len(tokens) + 1) =>
          tokens'[Len(tokens')].line = LineOf(source, current + 1)
    /\ (spc = "scan" /\ spc' = "done") =>
          tokens'[Len(tokens')].line = LineOf(source, Len(source) + 1)

\* C21: a token records the line of its first character, Eof the last line.
C21_TokenLineIsFirstCharLine == [][C21_TokenLineIsFirstCharLine_Step]_vars

----------------------------------------------------------------------------
(* C22: while no error has been raised the Environment holds 1 scope plus  *)
(* one for every Block that lexically encloses the statement being         *)
(* executed.  The active calls of interpret_stmt follow the lexical        *)
(* nesting: each is for a statement of the program, of the enclosing block *)
(* or a branch of the enclosing if.  A push adds an empty scope on top, a  *)
(* pop removes the top scope, which is the one the same block pushed; when *)
(* a statement returns Ok the stack has the depth of its start and the     *)
(* scopes below the top hold the names they held at its start.             *)

\* The frame is the call for a statement directly inside the frame below.
ChildOf(parent, child) ==
    /\ child.k = "stmt"
    /\ CASE parent.k = "program" ->
               parent.i - 1 \in 1..Len(program) /\ child.stmt = program[parent.i - 1]
         [] parent.stmt.kind = "Block" ->
               parent.pc - 1 \in 1..Len(parent.stmt.stmts)
                   /\ child.stmt = parent.stmt.stmts[parent.pc - 1]
         [] parent.stmt.kind = "IfStmt" ->
               \/ child.stmt = parent.stmt.then_branch
               \/ parent.stmt.else_branch = <<child.stmt>>
         [] OTHER -> FALSE

\* The Blocks among the first n frames whose scope has been pushed.
BlocksEntered(n) ==
    Cardinality({i \in 1..n : frames[i].k = "stmt" /\ frames[i].stmt.kind = "Block"
                               /\ frames[i].pc >= 1})

\* The step is the Ok return of interpret_stmt.
StmtReturnsOk ==
    /\ r_status = "run" /\ r_status' = "run"
    /\ frames # <<>> /\ Top.k = "stmt"
    /\ frames' = Below

C22_DepthIsNesting ==
    (r_status = "run" /\ frames # <<>>) =>
       /\ \A i \in 2..Len(frames) : ChildOf(frames[i - 1], frames[i])
       /\ \A i \in 1..(Len(frames) - 1) :
             (frames[i].k = "stmt" /\ frames[i].stmt.kind = "Block") => frames[i].pc >= 1
       /\ Len(scopes) = 1 + BlocksEntered(Len(frames))

C22_PushPopNested_Step ==
    r_status = "run" =>
       /\ Len(scopes') > Len(scopes) =>
             (Running("Block") /\ Top.pc = 0 /\ scopes' = Append(scopes, EmptyScope))
       /\ Len(scopes') < Len(scopes) =>
             /\ Running("Block")
             /\ Top.pc = Len(Top.stmt.stmts) + 1
             /\ Len(scopes) = Len(Top.scopes0) + 1
             /\ scopes' = SubSeq(scopes, 1, Len(scopes) - 1)

C22_ReturnRestoresStack_Step ==
    StmtReturnsOk =>
       /\ Len(scopes') = Len(Top.scopes0)
       /\ \A i \in 1..(Len(scopes') - 1) : DOMAIN scopes'[i] = DOMAIN Top.scopes0[i]

\* C22: without an error the scope depth is 1 plus the enclosing Blocks,
\* pushes and pops nest, and a statement leaves the stack as it found it.
C22_ScopesFollowNesting ==
    /\ []C22_DepthIsNesting
    /\ [][C22_PushPopNested_Step]_vars
    /\ [][C22_ReturnRestoresStack_Step]_vars

\* `{ var x = 2; { var x = 3; x = 4; } print x; }` at `x = 4;`: two Blocks
\* enclose the statement and the Environment holds three scopes.
C22_Witness ==
    /\ Running("Expr")
    /\ Len(frames) = 4
    /\ frames[2].stmt.kind = "Block"
    /\ frames[3].stmt.kind = "Block"
    /\ Len(scopes) = 3

----------------------------------------------------------------------------
(* Reference notions the claims on scan_token's arms are stated with. *)

\* The next scan_token call starts at a character of S.
StartsAt(S) == spc = "scan" /\ current < Len(source) /\ source[current + 1] \in S

\* The call emitted one token, of type ttype, whose lexeme is the source
\* from the call's start to the 1-based index last, where the scan goes on.
Emits(ttype, last) ==
    /\ current' = last
    /\ tokens' = Append(tokens, tokens'[Len(tokens')])
    /\ tokens'[Len(tokens')].token_type = ttype
    /\ tokens'[Len(tokens')].lexeme = SubSeq(source, current + 1, last)

\* The end of the longest run of characters of S that starts at index i
\* (i - 1 when the character at i is not of S).
RunEnd(src, i, S) ==
    CHOOSE j \in (i - 1)..Len(src) :
        /\ \A k \in i..j : src[k] \in S
        /\ j = Len(src) \/ src[j + 1] \notin S

LexemesOf(toks) == [i \in 1..Len(toks) |-> toks[i].lexeme]

----------------------------------------------------------------------------
(* C23: at `!`, `=`, `>` or `<` the scanner emits the two-character token  *)
(* exactly when the next character is `=`, and consumes both; otherwise    *)
(* the one-character token, consuming one.  The match is greedy from the   *)
(* left: `===` is EQUAL_EQUAL, EQUAL and `!==` is BANG_EQUAL, EQUAL.       *)
OperatorKinds ==
    {<<"!", 1, "Bang">>, <<"!", 2, "BangEqual">>,
     <<"=", 1, "Equal">>, <<"=", 2, "EqualEqual">>,
     <<">", 1, "Greater">>, <<">", 2, "GreaterEqual">>,
     <<"<", 1, "Less">>, <<"<", 2, "LessEqual">>}

C23_OperatorStep ==
    StartsAt({"!", "=", ">", "<"}) =>
        LET n == IF current + 2 <= Len(source) /\ source[current + 2] = "=" THEN 2 ELSE 1
        IN  \E k \in OperatorKinds :
               k[1] = source[current + 1] /\ k[2] = n /\ Emits(k[3], current + n)

C23_Greedy ==
    spc = "done" =>
        /\ source = <<"=", "=", "=">> =>
              (TypesOf(tokens) = <<"EqualEqual", "Equal", "Eof">>
                  /\ LexemesOf(tokens) = << <<"=", "=">>, <<"=">>, <<>> >>)
        /\ source = <<"!", "=", "=">> =>
              (TypesOf(tokens) = <<"BangEqual", "Equal", "Eof">>
                  /\ LexemesOf(tokens) = << <<"!", "=">>, <<"=">>, <<>> >>)

\* C23: a two-character operator exactly when `=` follows, greedy from the left.
C23_TwoCharOperators == [][C23_OperatorStep]_vars /\ []C23_Greedy

\* `<==>` has been scanned: LESS_EQUAL, EQUAL, GREATER.
C23_Witness ==
    /\ spc = "done"
    /\ source = <<"<", "=", "=", ">">>
    /\ TypesOf(tokens) = <<"LessEqual", "Equal", "Greater", "Eof">>

----------------------------------------------------------------------------
(* C24: a number's lexeme is a run of digits, then optionally one `.` and  *)
(* a run of digits: a `.` that no digit follows is not part of the number  *)
(* and is a DOT token of its own, so no number lexeme ends with `.` or     *)
(* holds two dots.                                                         *)
NumberEnd(src, i) ==
    LET a == RunEnd(src, i, Digits)
    IN  IF a + 2 <= Len(src) /\ src[a + 1] = "." /\ src[a + 2] \in Digits
        THEN RunEnd(src, a + 2, Digits)
        ELSE a

C24_NumberStep ==
    StartsAt(Digits) => Emits("Number", NumberEnd(source, current + 1))

\* A non-empty digit run, optionally followed by one `.` and a non-empty
\* digit run.
IsNumberLexeme(s) ==
    /\ s # <<>>
    /\ \A i \in 1..Len(s) : s[i] \in Digits \cup {"."}
    /\ s[1] # "." /\ s[Len(s)] # "."
    /\ Cardinality({i \in 1..Len(s) : s[i] = "."}) <= 1

C24_NumberLexemes ==
    /\ \A i \in 1..Len(tokens) :
          tokens[i].token_type = "Number" => IsNumberLexeme(tokens[i].lexeme)
    /\ spc = "done" =>
          /\ source = <<"1", ".">> =>
                (TypesOf(tokens) = <<"Number", "Dot", "Eof">>
                    /\ LexemesOf(tokens) = << <<"1">>, <<".">>, <<>> >>)
          /\ source = <<"1", ".", "2", ".", "3">> =>
                (TypesOf(tokens) = <<"Number", "Dot", "Number", "Eof">>
                    /\ LexemesOf(tokens) = << <<"1", ".", "2">>, <<".">>, <<"3">>, <<>> >>)

\* C24: a `.` belongs to a number only between two digits, and only once.
C24_NumberLexemeShape == [][C24_NumberStep]_vars /\ []C24_NumberLexemes

\* `12.3.` has been scanned: NUMBER 12.3, then DOT.
C24_Witness ==
    /\ spc = "done"
    /\ source = <<"1", "2", ".", "3", ".">>
    /\ LexemesOf(tokens) = << <<"1", "2", ".", "3">>, <<".">>, <<>> >>
    /\ TypesOf(tokens) = <<"Number", "Dot", "Eof">>

----------------------------------------------------------------------------
(* C25: an identifier token is the longest run of letters, digits and      *)
(* underscores that starts at a letter or an underscore; its kind is a     *)
(* keyword kind if and only if the whole run is one of the sixteen         *)
(* reserved words, so a run that begins with or contains a reserved word   *)
(* is one Identifier.                                                      *)
KindList ==
    <<"And", "Class", "Else", "False", "Fun", "For", "If", "Nil", "Or", "Print",
      "Return", "Super", "This", "True", "Var", "While">>

\* The kind of a run: that of the reserved word it is, Identifier otherwise.
KindOfRun(run) ==
    IF \E i \in 1..Len(WordList) : WordList[i] = run
    THEN KindList[CHOOSE i \in 1..Len(WordList) : WordList[i] = run]
    ELSE "Identifier"

C25_IdentifierStep ==
    StartsAt(Letters \cup {"_"}) =>
        LET last == RunEnd(source, current + 1, Letters \cup Digits \cup {"_"})
        IN  Emits(KindOfRun(SubSeq(source, current + 1, last)), last)

C25_Examples ==
    spc = "done" =>
        \A w \in {<<"o", "r", "c", "h", "i", "d">>, <<"v", "a", "r", "1">>, <<"_", "i", "f">>} :
            source \in {w, w \o <<" ">>} =>
                (TypesOf(tokens) = <<"Identifier", "Eof">> /\ tokens[1].lexeme = w)

\* C25: a keyword only when the whole longest run is a reserved word.
C25_KeywordIsWholeRun == [][C25_IdentifierStep]_vars /\ []C25_Examples

\* `or var1 ` has been scanned: the keyword OR, then one Identifier.
C25_Witness ==
    /\ spc = "done"
    /\ source = kOr \o <<" ">> \o <<"v", "a", "r", "1">> \o <<" ">>
    /\ TypesOf(tokens) = <<"Or", "Identifier", "Eof">>
    /\ tokens[2].lexeme = <<"v", "a", "r", "1">>

----------------------------------------------------------------------------
(* C30: the scanner loses and reorders nothing.  Tokens are emitted in     *)
(* source order; a lexeme is the contiguous piece of source its scan_token *)
(* call went over, so lexemes do not overlap; and the lexemes put together *)
(* are the source without the whitespace and the `//` comments between     *)
(* tokens, without the unexpected characters and without the text of an    *)
(* unterminated string.                                                    *)

\* The first index from i on where src holds c; Len(src) + 1 if none.
FirstAt(src, i, c) ==
    CHOOSE j \in i..(Len(src) + 1) :
        /\ j = Len(src) + 1 \/ src[j] = c
        /\ \A k \in i..(j - 1) : src[k] # c

\* The source from index i on with its whitespace, comments, unexpected
\* characters and unterminated string text left out.
RECURSIVE Kept(_, _)
Kept(src, i) ==
    IF i > Len(src) THEN <<>>
    ELSE IF src[i] \in {" ", "\t", "\n"} \/ src[i] \notin Recognised THEN Kept(src, i + 1)
    ELSE IF src[i] = "/" /\ i < Len(src) /\ src[i + 1] = "/"
         THEN Kept(src, FirstAt(src, i + 2, "\n") + 1)
    ELSE IF src[i] = "\""
         THEN LET close == FirstAt(src, i + 1, "\"")
              IN  IF close > Len(src) THEN <<>>
                  ELSE SubSeq(src, i, close) \o Kept(src, close + 1)
    ELSE <<src[i]>> \o Kept(src, i + 1)

C30_LexemeIsScannedText ==
    (spc = "scan" /\ spc' = "scan") =>
        /\ current' > current
        /\ \/ tokens' = tokens
           \/ /\ tokens' = Append(tokens, tokens'[Len(tokens')])
              /\ tokens'[Len(tokens')].lexeme = SubSeq(source, current + 1, current')

C30_EofAddsNothing ==
    (spc = "scan" /\ spc' = "done") =>
        /\ SubSeq(tokens', 1, Len(tokens)) = tokens
        /\ Len(tokens') = Len(tokens) + 1
        /\ tokens'[Len(tokens')].lexeme = <<>>

C30_LexemesAreKeptSource ==
    /\ spc = "scan" =>
          Concat(LexemesOf(tokens)) = Kept(SubSeq(source, 1, current), 1)
    /\ spc = "done" => Concat(LexemesOf(tokens)) = Kept(source, 1)

\* C30: the lexemes, in order, are the source less what the scanner skips.
C30_LexemesPartitionSource ==
    /\ [][C30_LexemeIsScannedText]_vars
    /\ [][C30_EofAddsNothing]_vars
    /\ []C30_LexemesAreKeptSource

\* `a/1@` has been scanned: three lexemes side by side, the `@` left out.
C30_Witness ==
    /\ spc = "done"
    /\ source = <<"a", "/", "1", "@">>
    /\ LexemesOf(tokens) = << <<"a">>, <<"/">>, <<"1">>, <<>> >>
    /\ had_error

----------------------------------------------------------------------------
(* C26: `==` and `!=` raise no RuntimeError on any pair of operand values. *)
(* Two values of different variants are never equal; two values of the     *)
(* same variant are equal exactly when their payloads are equal, Numbers   *)
(* as floats compare (a NaN equals nothing); `!=` is the negation of `==`  *)
(* on the same operands.  Checked on `print l == r;` and `print l != r;`   *)
(* for the operands nil, true, false, 1, 2, "a", "1", "", 0 / 0 and 1 / 0. *)

\* Same variant and equal payloads.
SameValue(a, b) ==
    /\ a.t = b.t
    /\ a.v = b.v
    /\ a.t = "Number" => a.v # <<0, 0>>

C26_EqualityOnValues_Step ==
    (Evaluates("Binary") /\ Top.stmt.expr.op \in {"Equal", "NotEqual"}) =>
       LET e == Top.stmt.expr
           l == evaluate(e.left, scopes)
           r == evaluate(e.right, scopes)
       IN  /\ l.ok /\ r.ok
           /\ scopes' = scopes
           /\ Yields(BoolV(SameValue(l.val, r.val) = (e.op = "Equal")))

\* The operand values of the statements under test.
C26_Operands ==
    {evaluate(TestNodes[t].expr.left, env_default).val : t \in EqTests}
        = {NilV, BoolV(TRUE), BoolV(FALSE), NumberV(<<1, 1>>), NumberV(<<2, 1>>),
           StringV(<<"a">>), StringV(<<"1">>), StringV(<<>>),
           NumberV(<<0, 0>>), NumberV(<<1, 0>>)}

\* C26: `==` and `!=` never fail; equal means same variant and equal payloads.
C26_EqualityNeverFails ==
    [][C26_EqualityOnValues_Step]_vars /\ [](r_status # "idle" => C26_Operands)

\* `print 0 / 0 != 0 / 0;` has printed true.
C26_Witness ==
    /\ r_status = "ok"
    /\ Len(program) = 1
    /\ program[1].kind = "Print"
    /\ program[1].expr.kind = "Binary"
    /\ program[1].expr.op = "NotEqual"
    /\ program[1].expr.left = program[1].expr.right
    /\ program[1].expr.left.kind = "Binary"
    /\ program[1].expr.left.op = "Div"
    /\ program[1].expr.left.right.val = <<0, 1>>
    /\ program[1].expr.left.left.val = <<0, 1>>
    /\ output = <<"true">>

----------------------------------------------------------------------------
(* C27: a Binary node evaluates its left operand, then its right operand,  *)
(* and only then looks at the types of the two values.  The assignments of *)
(* both operands have been made when a type-mismatch error is raised, the  *)
(* right operand's after the left operand's; and when the left value has   *)
(* the wrong type and the right operand fails, the error is that of the    *)
(* right operand.                                                          *)

\* The operator does not take the two values.
Mismatch(op, l, r) ==
    CASE op \in {"Equal", "NotEqual"} -> FALSE
      [] op = "Add" -> ~(l.t = r.t /\ l.t \in {"Number", "String"})
      [] OTHER -> l.t # "Number" \/ r.t # "Number"

TypeMessages ==
    {"Expecting a number", "Expecting a string", "Expecting a number or a string"}

C27_OperandsThenTypes_Step ==
    Evaluates("Binary") =>
       LET e == Top.stmt.expr
           l == evaluate(e.left, scopes)
           r == evaluate(e.right, l.scopes)
       IN  IF ~l.ok THEN Fails(l.err.line, l.err.msg) /\ scopes' = l.scopes
           ELSE IF ~r.ok THEN Fails(r.err.line, r.err.msg) /\ scopes' = r.scopes
           ELSE /\ scopes' = r.scopes
                /\ Mismatch(e.op, l.val, r.val) =>
                      \E msg \in TypeMessages : Fails(e.line, msg)
                /\ ~Mismatch(e.op, l.val, r.val) => r_status' = "run"

\* `print nil - (x = 9);`, `print (x = 8) < (x = nil);` and `print nil * z;`
C27_OnTheTests_Step ==
    (Evaluates("Binary") /\ Top.stmt.expr.op \in {"Sub", "Less", "Mul"}) =>
       LET e == Top.stmt.expr
           x == <<"x">>
       IN  CASE e.op = "Mul" ->
                   Fails(2, "Undefined variable 'z'.") /\ scopes' = scopes
             [] ~Bound(scopes, x) ->
                   /\ Fails(2, "Variable 'x' not declared before assignment")
                   /\ scopes' = scopes
             [] OTHER ->
                   /\ Fails(e.line, "Expecting a number")
                   /\ scopes' = [scopes EXCEPT ![Innermost(scopes, x)][x] =
                                    IF e.op = "Sub" THEN NumberV(<<9, 1>>) ELSE NilV]

\* C27: both operands are evaluated, left then right, before the types are checked.
C27_OperandsBeforeTypeCheck ==
    [][C27_OperandsThenTypes_Step]_vars /\ [][C27_OnTheTests_Step]_vars

\* `var x = 1;` and `print (x = 8) < (x = nil);` have been run: the type
\* error is raised and x holds nil, the value the right operand assigned.
C27_Witness ==
    /\ r_status = "err"
    /\ Len(program) = 2
    /\ program[1].kind = "Var"
    /\ program[2].kind = "Print"
    /\ program[2].expr.kind = "Binary"
    /\ program[2].expr.op = "Less"
    /\ r_error = <<RuntimeError(2, "Expecting a number")>>
    /\ scopes = <<ScopeInsert(EmptyScope, <<"x">>, NilV)>>
    /\ output = <<>>

----------------------------------------------------------------------------
(* C28: the parser's cursor stays within the tokens and never passes the   *)
(* Eof token that ends them, on empty input and on input that ends inside  *)
(* an expression, an if statement or a block as well.  The cursor only     *)
(* moves forward, so the cursor a declaration call returns with is the     *)
(* furthest index the call has read at.                                    *)

\* The 0-based index of the Eof token.
EofIndex == Len(p_tokens) - 1

C28_TokensEndInEof ==
    /\ Len(p_tokens) >= 1
    /\ \A i \in 1..Len(p_tokens) : (p_tokens[i].token_type = "Eof") = (i = Len(p_tokens))

C28_CursorInTokens ==
    p_result.status # "idle" =>
        /\ C28_TokensEndInEof
        /\ p_current \in 0..EofIndex

C28_CursorMovesForward ==
    p_result.status # "idle" =>
        /\ p_current' >= p_current
        /\ p_current' <= EofIndex
        /\ p_tokens' = p_tokens

\* C28: the cursor is an index of the token sequence, at most that of Eof.
C28_CursorWithinTokens == []C28_CursorInTokens /\ [][C28_CursorMovesForward]_vars

\* `{ 1 ;` has failed at the end of input inside the block, the cursor on Eof.
C28_Witness ==
    /\ p_result.status = "Err"
    /\ TypesOf(p_tokens) = <<"LeftBrace", "Number", "Semicolon", "Eof">>
    /\ p_current = 3
    /\ Len(p_diags) = 1
    /\ p_diags[1].msg = "Not expecting end of file"

----------------------------------------------------------------------------
(* C29: parse_program terminates, with Ok(program) or with Err.  An        *)
(* iteration of the statement loop consumes at least one token or returns  *)
(* the error, so the loop makes at most as many iterations as there are    *)
(* tokens before Eof, and while it has not returned it has a next step; on *)
(* Ok the cursor rests on Eof, and the statements of the program hold      *)
(* every token before it: each statement, each block and each operator     *)
(* node has consumed its own tokens.                                       *)
C29_IterationConsumes ==
    (p_result.status = "pending" /\ p_tokens[p_current + 1].token_type # "Eof") =>
        \/ p_result'.status = "pending" /\ p_current' > p_current
              /\ Len(p_stmts') = Len(p_stmts) + 1
        \/ p_result'.status = "Err" /\ p_stmts' = p_stmts

C29_ReturnsAtEof ==
    (p_result.status = "pending" /\ p_tokens[p_current + 1].token_type = "Eof") =>
        (p_result'.status = "Ok" /\ p_current' = p_current)

C29_OkConsumedAll ==
    p_result.status = "Ok" =>
        /\ p_current = EofIndex
        /\ StmtsSpan(p_stmts) = EofIndex
        /\ p_diags = <<>>

\* The loop has made at most p_current iterations, and while it has not
\* returned the declaration call of its next iteration returns a Result.
C29_BoundedAndRunning ==
    /\ p_result.status # "idle" => Len(p_stmts) <= p_current
    /\ (p_result.status = "pending" /\ p_tokens[p_current + 1].token_type # "Eof") =>
          declaration(p_tokens, POk(p_current, <<>>)).ok \in BOOLEAN

\* Once returned, parse_program does nothing more.
C29_ReturnIsFinal == p_result.status \in {"Ok", "Err"} => UNCHANGED parseVars

\* C29: parse_program terminates; an iteration consumes or fails; Ok rests on Eof.
C29_ParseTerminates ==
    /\ [][C29_IterationConsumes]_vars
    /\ [][C29_ReturnsAtEof]_vars
    /\ []C29_OkConsumedAll
    /\ []C29_BoundedAndRunning
    /\ [][C29_ReturnIsFinal]_vars

\* `1 + 2 * 3 ;` has been parsed: Ok, one statement, the cursor on Eof.
C29_Witness ==
    /\ p_result.status = "Ok"
    /\ TypesOf(p_tokens) = <<"Number", "Plus", "Number", "Star", "Number", "Semicolon", "Eof">>
    /\ p_current = 6
    /\ Len(p_stmts) = 1
    /\ p_stmts[1].expr.kind = "Binary"

====
